---- MODULE Spec2Model ----
(***************************************************************************)
(* Model of src/src/vertex_orchestrator.py: the LazyAlgorithmLoader, the   *)
(* PerformanceTracker and the VertexOrchestrator (priority queue, worker   *)
(* coroutines, pending-result futures, vertices, start/stop).              *)
(*                                                                         *)
(* The program is asyncio code on one event loop: a coroutine runs         *)
(* atomically from one suspension point to the next, so every action below *)
(* is the code between two suspension points.  The suspension points are:  *)
(* the caller's `await result_future` (execute_task), the worker's         *)
(* `await asyncio.wait_for(self.task_queue.get(), 1.0)`, the algorithm's   *)
(* own awaits inside `execute`, stop()'s `await asyncio.gather(...)` and   *)
(* the monitor's `await asyncio.sleep(5)`.                                 *)
(***************************************************************************)
EXTENDS Integers, Sequences, FiniteSets, TLC

(***************************************************************************)
(* Bounds of the model.                                                    *)
(***************************************************************************)
MaxTasks == 2        \* execute_task calls in one behaviour of Spec and SpecLive
MaxPrioTasks == 3    \* execute_task calls in one behaviour of SpecPriority
MaxClock == 1        \* distinct readings of time.time()
MaxCreated == 3      \* instances built in the loader-only specification
MaxUsage == 2        \* largest usage_count in the loader-only specification
MaxPoolBound == 2    \* largest max_concurrent_tasks the constructor is given
MaxCacheBound == 2   \* largest max_cache_size of the loader-only specification
MaxStarts == 2       \* start() calls in one behaviour of SpecStart
MaxRuns == 2         \* execute_cascade / execute_compound calls in one behaviour
MaxConnections == 3  \* longest connections list of a vertex in SpecTopology
MaxBypassRuns == 1   \* execute_cascade / execute_compound calls in one behaviour of SpecBypass
MaxBypassTasks == 1  \* execute_task calls in one behaviour of SpecBypass
MaxRecords == 1002   \* record_execution calls in one behaviour of SpecTracker
MaxEarlyCalls == 2   \* SpecTracker: the first calls, which may record any id and outcome
MaxInputs == 1003    \* distinct inputs execute_with_cache is given in SpecResultCache
MaxInFlight == 2     \* execute_with_cache calls suspended at once in SpecResultCache
MaxEarlyInputs == 2  \* SpecResultCache: the first inputs, whose calls may overlap

(***************************************************************************)
(* Program constants.                                                      *)
(***************************************************************************)
CRITICAL == 1
HIGH == 2
MEDIUM == 3
LOW == 4
BACKGROUND == 5
DefaultMaxCacheSize == 100
DefaultMaxCapacity == 10
WorkerPoolCap == 10
FallbackCpu == 50
FallbackMemory == 60
ResultCacheLimit == 1000
ResultCacheTrim == 100

None == "None"
NoFuture == 0 - 1
NoInstance == [factory |-> None, serial |-> 0]

(***************************************************************************)
(* Inputs.  An algorithm factory is named by what the object it builds     *)
(* does: "double" builds an object whose execute(x) awaits and returns     *)
(* x * 2, "boom" one whose execute awaits and raises, "shapeless" one that *)
(* is neither callable nor has execute, "triple" a plain callable that     *)
(* returns x * 3 without suspending, and the factory "broken" raises.      *)
(***************************************************************************)
AlgIds == {"double", "inc", "describe", "flag", "boom", "broken", "ghost"}
Factories == {"double", "triple", "inc", "describe", "flag", "boom", "broken", "shapeless"}
\* The algorithm ids the callers of the loader-only and orchestrator
\* specifications pass.
CoreAlgIds == {"double", "boom", "broken", "ghost"}
ChainIds == {"c1"}
GroupIds == {"g1"}
TaskIdSeq == <<"t1", "t2", "t3", "t4">>
TaskIds == {TaskIdSeq[i] : i \in 1..Len(TaskIdSeq)}
VertexIds == {"default_vertex", "v1"}
Payloads == {5, 7}

VARIABLES
    now,                  \* the value time.time() returns
    max_cache_size,       \* LazyAlgorithmLoader.max_cache_size
    algorithm_cache,      \* LazyAlgorithmLoader.algorithm_cache: id -> instance
    algorithm_metadata,   \* LazyAlgorithmLoader.algorithm_metadata, in dict order
    algorithm_registry,   \* LazyAlgorithmLoader._algorithm_registry: id -> factory
    n_created,            \* instances the factories have built so far
    last_load,            \* what the latest direct load_algorithm call did (observation)
    max_concurrent_tasks, \* VertexOrchestrator.max_concurrent_tasks
    vertices,             \* VertexOrchestrator.vertices, in dict order
    task_queue,           \* VertexOrchestrator.task_queue: set of (priority, counter, task_data)
    task_counter,         \* VertexOrchestrator._task_counter
    active_tasks,         \* VertexOrchestrator.active_tasks: task id -> future
    calls,                \* the execute_task calls made so far, with their futures
    running,              \* VertexOrchestrator._running
    worker_tasks,         \* VertexOrchestrator._worker_tasks
    stop_pc,              \* where the stop() call is
    execution_history,    \* PerformanceTracker.execution_history
    performance_stats,    \* PerformanceTracker.performance_stats: id -> statistics
    pickup,               \* the counters of the tasks in the order workers took them
    topology_call,        \* the latest create_vertex / connect_vertices call (observation)
    cascade_chains,       \* CascadingAlgorithmEngine.cascade_chains: chain id -> stages
    compound_groups,      \* CascadingAlgorithmEngine.compound_groups: group id -> members
    cascade_run,          \* the execute_cascade call: where it is, what it did
    compound_run,         \* the execute_compound call: where it is, what it did
    load_pair,            \* what two load_algorithm calls in a row did (observation)
    result_cache,         \* BaseAlgorithm.cache of one algorithm: its keys, in dict order
    cache_pending,        \* keys of the execute_with_cache calls suspended in execute()
    cache_inputs,         \* number of distinct inputs execute_with_cache was given so far
    cache_call            \* what the latest execute_with_cache step did (observation)

loaderVars == <<now, max_cache_size, algorithm_cache, algorithm_metadata,
                algorithm_registry, n_created, last_load>>
orchVars == <<max_concurrent_tasks, vertices, task_queue, task_counter, active_tasks,
              calls, running, worker_tasks, stop_pc, execution_history, performance_stats,
              pickup,
              topology_call>>
vars == <<now, max_cache_size, algorithm_cache, algorithm_metadata,
          algorithm_registry, n_created, last_load,
          max_concurrent_tasks, vertices, task_queue, task_counter, active_tasks,
          calls, running, worker_tasks, stop_pc, execution_history, performance_stats,
          pickup,
          topology_call,
          cascade_chains, compound_groups, cascade_run, compound_run, load_pair,
          result_cache, cache_pending, cache_inputs, cache_call>>
registryVars == <<result_cache, cache_pending, cache_inputs, cache_call>>
engineVars == <<cascade_chains, compound_groups, cascade_run, compound_run, load_pair>>

Min(a, b) == IF a <= b THEN a ELSE b
Max(a, b) == IF a >= b THEN a ELSE b

(***************************************************************************)
(* LazyAlgorithmLoader                                                     *)
(***************************************************************************)

\* The ids in algorithm_metadata, in dict (first-insertion) order.
MetaIds == {algorithm_metadata[i].algorithm_id : i \in 1..Len(algorithm_metadata)}

MetaIndex(id) == CHOOSE i \in 1..Len(algorithm_metadata) :
                    algorithm_metadata[i].algorithm_id = id

CachedIds == {id \in AlgIds : algorithm_cache[id] # NoInstance}

\* dict.__setitem__ on algorithm_metadata: a new key goes last, a known key
\* keeps its place.
SetMetadata(meta, id, m) ==
    IF \E i \in 1..Len(meta) : meta[i].algorithm_id = id
    THEN [i \in 1..Len(meta) |-> IF meta[i].algorithm_id = id THEN m ELSE meta[i]]
    ELSE Append(meta, m)

\* register_algorithm: binds the factory and the metadata; the metadata object is
\* built by the caller with the defaults last_used = time.time(), usage_count = 0.
RegisterEffect(id, fac) ==
    /\ algorithm_registry' = [algorithm_registry EXCEPT ![id] = fac]
    /\ algorithm_metadata' = SetMetadata(algorithm_metadata, id,
           [algorithm_id |-> id, last_used |-> now, usage_count |-> 0])

\* A plausible slip: the access time is refreshed but the use is not counted.
MutUpdateAccessStatsTimeOnly(meta, id, t) ==
    [i \in 1..Len(meta) |->
        IF meta[i].algorithm_id = id THEN [meta[i] EXCEPT !.last_used = t] ELSE meta[i]]

\* _update_access_stats, on a metadata sequence.
UpdateAccessStats(meta, id, t) ==
    [i \in 1..Len(meta) |->
        IF meta[i].algorithm_id = id
        THEN [meta[i] EXCEPT !.last_used = t, !.usage_count = @ + 1]
        ELSE meta[i]]

\* The key of _evict_least_used's min(): last_used for a cached id, float('inf')
\* otherwise.  Infinity is a number above every clock reading.
Infinity == MaxClock + MaxTasks + MaxPrioTasks + 100
EvictKey(m, cache) == IF cache[m.algorithm_id] # NoInstance THEN m.last_used ELSE Infinity

\* A plausible slip: max() for min(), the most recently used cached id is taken.
MutLruMostRecent(meta, cache) ==
    LET cached == {i \in 1..Len(meta) : cache[meta[i].algorithm_id] # NoInstance}
        i == CHOOSE i \in cached : \A j \in cached : meta[i].last_used >= meta[j].last_used
    IN meta[i].algorithm_id

\* min(self.algorithm_metadata.items(), key=...)[0]: the first item, in dict order,
\* whose key is minimal.
LruAlgorithm(meta, cache) ==
    LET i == CHOOSE i \in 1..Len(meta) :
                /\ \A j \in 1..Len(meta) : EvictKey(meta[i], cache) <= EvictKey(meta[j], cache)
                /\ \A j \in 1..(i - 1) : EvictKey(meta[j], cache) > EvictKey(meta[i], cache)
    IN meta[i].algorithm_id

\* A plausible slip: the capacity test is skipped, nothing is evicted.
MutEvictNothing(meta, cache) == cache

\* _evict_least_used: the cache after the call.
EvictLeastUsed(meta, cache) ==
    IF \A id \in AlgIds : cache[id] = NoInstance
    THEN cache
    ELSE LET lru == LruAlgorithm(meta, cache)
         IN IF cache[lru] # NoInstance THEN [cache EXCEPT ![lru] = NoInstance] ELSE cache

\* What a factory's instance does when executed; the factory "broken" raises.
FactoryRaises(fac) == fac = "broken"

\* A plausible slip: the cache entry is written before the factory has returned,
\* so an id whose factory raised stays in the cache.
MutLoadAlgorithmCachesFailure(id, cache, meta, registry, created, cap, t) ==
    IF cache[id] # NoInstance
    THEN [result |-> cache[id], cache |-> cache,
          meta |-> UpdateAccessStats(meta, id, t), created |-> created,
          outcome |-> "hit"]
    ELSE IF registry[id] = None
    THEN [result |-> NoInstance, cache |-> cache, meta |-> meta, created |-> created,
          outcome |-> "not_registered"]
    ELSE LET c1 == IF Cardinality({a \in AlgIds : cache[a] # NoInstance}) >= cap
                   THEN EvictLeastUsed(meta, cache)
                   ELSE cache
             inst == [factory |-> registry[id], serial |-> created + 1]
         IN IF FactoryRaises(registry[id])
            THEN [result |-> NoInstance, cache |-> [c1 EXCEPT ![id] = inst], meta |-> meta,
                  created |-> created, outcome |-> "factory_raised"]
            ELSE [result |-> inst, cache |-> [c1 EXCEPT ![id] = inst],
                  meta |-> UpdateAccessStats(meta, id, t), created |-> created + 1,
                  outcome |-> "loaded"]

\* load_algorithm as a function of the loader's state: the result (an instance or
\* None), and the cache, metadata and instance count after the call.
LoadAlgorithm(id, cache, meta, registry, created, cap, t) ==
    IF cache[id] # NoInstance
    THEN [result |-> cache[id], cache |-> cache,
          meta |-> UpdateAccessStats(meta, id, t), created |-> created,
          outcome |-> "hit"]
    ELSE IF registry[id] = None
    THEN [result |-> NoInstance, cache |-> cache, meta |-> meta, created |-> created,
          outcome |-> "not_registered"]
    ELSE LET c1 == IF Cardinality({a \in AlgIds : cache[a] # NoInstance}) >= cap
                   THEN EvictLeastUsed(meta, cache)
                   ELSE cache
         IN IF FactoryRaises(registry[id])
            THEN [result |-> NoInstance, cache |-> c1, meta |-> meta, created |-> created,
                  outcome |-> "factory_raised"]
            ELSE LET inst == [factory |-> registry[id], serial |-> created + 1]
                 IN [result |-> inst, cache |-> [c1 EXCEPT ![id] = inst],
                     meta |-> UpdateAccessStats(meta, id, t), created |-> created + 1,
                     outcome |-> "loaded"]

LoaderInit ==
    /\ now = 0
    /\ algorithm_cache = [id \in AlgIds |-> NoInstance]
    /\ algorithm_metadata = <<>>
    /\ algorithm_registry = [id \in AlgIds |-> None]
    /\ n_created = 0
    /\ last_load = [id |-> None, outcome |-> None, result |-> NoInstance, size_before |-> 0,
                    evicted |-> None, retry |-> FALSE]

\* time.time() moves on.
Tick ==
    /\ now < MaxClock
    /\ now' = now + 1
    /\ UNCHANGED <<max_cache_size, algorithm_cache, algorithm_metadata,
                   algorithm_registry, n_created, last_load>>
    /\ UNCHANGED orchVars
    /\ UNCHANGED engineVars
    /\ UNCHANGED registryVars

\* loader.register_algorithm(id, factory, metadata)
Register(id, fac) ==
    /\ RegisterEffect(id, fac)
    /\ UNCHANGED <<now, max_cache_size, algorithm_cache, n_created, last_load>>
    /\ UNCHANGED orchVars
    /\ UNCHANGED engineVars
    /\ UNCHANGED registryVars

\* The load before this one was of the same id and failed because the factory
\* raised.
FailedBefore(ll, id) == ll.id = id /\ ll.outcome = "factory_raised"

\* The id a load took out of the cache, None if it took none.
Evicted(before, after) ==
    IF \E a \in AlgIds : before[a] # NoInstance /\ after[a] = NoInstance
    THEN CHOOSE a \in AlgIds : before[a] # NoInstance /\ after[a] = NoInstance
    ELSE None

\* usage_count of the id's metadata, 0 when the id has none.
UsageOf(meta, id) ==
    IF \E i \in 1..Len(meta) : meta[i].algorithm_id = id
    THEN meta[CHOOSE i \in 1..Len(meta) : meta[i].algorithm_id = id].usage_count
    ELSE 0

\* last_used of the id's metadata; every cached id has metadata.
LastUsedOf(meta, id) ==
    meta[CHOOSE i \in 1..Len(meta) : meta[i].algorithm_id = id].last_used

\* The factory calls a load made: one when it went past the cache and the registry.
FactoryCalls(r) == IF r.outcome \in {"loaded", "factory_raised"} THEN 1 ELSE 0

\* a = await loader.load_algorithm(id); b = await loader.load_algorithm(id):
\* load_algorithm never suspends, so nothing runs between the two calls.
LoadTwice(id) ==
    LET r1 == LoadAlgorithm(id, algorithm_cache, algorithm_metadata, algorithm_registry,
                            n_created, max_cache_size, now)
        r2 == LoadAlgorithm(id, r1.cache, r1.meta, algorithm_registry,
                            r1.created, max_cache_size, now)
    IN /\ r2.created <= MaxCreated
       /\ \A i \in 1..Len(r2.meta) : r2.meta[i].usage_count <= MaxUsage + 1
       /\ algorithm_cache' = r2.cache
       /\ algorithm_metadata' = r2.meta
       /\ n_created' = r2.created
       /\ last_load' = [id |-> id, outcome |-> r2.outcome, result |-> r2.result,
                        size_before |-> Cardinality({a \in AlgIds : r1.cache[a] # NoInstance}),
                        evicted |-> Evicted(r1.cache, r2.cache),
                        retry |-> r1.outcome = "factory_raised"]
       /\ load_pair' = [id |-> id, first |-> r1.result, second |-> r2.result,
                        registered |-> algorithm_registry[id] # None,
                        factory_ok |-> /\ algorithm_registry[id] # None
                                       /\ ~FactoryRaises(algorithm_registry[id]),
                        created |-> FactoryCalls(r1) + FactoryCalls(r2),
                        usage_before |-> UsageOf(algorithm_metadata, id),
                        usage_after |-> UsageOf(r2.meta, id)]
       /\ UNCHANGED <<now, max_cache_size, algorithm_registry>>
       /\ UNCHANGED registryVars
       /\ UNCHANGED <<cascade_chains, compound_groups, cascade_run, compound_run>>
       /\ UNCHANGED orchVars

\* await loader.load_algorithm(id), called directly on the loader
Load(id) ==
    LET r == LoadAlgorithm(id, algorithm_cache, algorithm_metadata, algorithm_registry,
                           n_created, max_cache_size, now)
    IN /\ r.created <= MaxCreated
       /\ \A i \in 1..Len(r.meta) : r.meta[i].usage_count <= MaxUsage
       /\ algorithm_cache' = r.cache
       /\ algorithm_metadata' = r.meta
       /\ n_created' = r.created
       /\ last_load' = [id |-> id, outcome |-> r.outcome, result |-> r.result,
                        size_before |-> Cardinality(CachedIds),
                        evicted |-> Evicted(algorithm_cache, r.cache),
                        retry |-> FailedBefore(last_load, id)]
       /\ UNCHANGED <<now, max_cache_size, algorithm_registry>>
       /\ UNCHANGED orchVars
       /\ UNCHANGED engineVars
       /\ UNCHANGED registryVars
(***************************************************************************)
(* The orchestrator's state after VertexOrchestrator(max_concurrent_tasks) *)
(***************************************************************************)
NoTaskData == [task_id |-> None, algorithm_id |-> None, data |-> 0, vertex_id |-> None]
NoEntry == [priority |-> 0, counter |-> NoFuture, task_data |-> NoTaskData]

\* A payload or result: a number, or an object that is no number.
Number(n) == [kind |-> "value", value |-> n]
NoChain == [defined |-> FALSE, stages |-> <<>>]
NoGroup == [defined |-> FALSE, members |-> <<>>]
NoCascadeRun ==
    [pc |-> "none", n |-> 0, chain |-> None, stages |-> <<>>, idx |-> 0,
     input |-> Number(0), current_data |-> Number(0), held |-> NoInstance,
     trace |-> <<>>]
NoCompoundRun ==
    [pc |-> "none", n |-> 0, group |-> None, members |-> <<>>, data |-> Number(0),
     member_pc |-> <<>>, held |-> <<>>, results |-> <<>>,
     result |-> [entries |-> <<>>, has_aggregate |-> FALSE, total |-> 0, weight |-> 0]]
NoLoadPair ==
    [id |-> None, first |-> NoInstance, second |-> NoInstance, registered |-> FALSE,
     factory_ok |-> FALSE, created |-> 0, usage_before |-> 0, usage_after |-> 0]

NoTopologyCall == [op |-> None, a |-> None, b |-> None, max_capacity |-> 0]

\* performance_stats holds nothing for the id (get_performance_stats returns {}).
\* success_rate is kept as the pair of the division's operands.
NoStats == [total_executions |-> 0, success_rate_num |-> 0, success_rate_den |-> 0]

\* BaseAlgorithm.__init__: an empty result cache; no call has been made.
NoCacheCall == [key |-> NoFuture, outcome |-> None, size_before |-> 0]

RegistryInit ==
    /\ result_cache = <<>>
    /\ cache_pending = <<>>
    /\ cache_inputs = 0
    /\ cache_call = NoCacheCall

\* CascadingAlgorithmEngine(): no chain and no group is defined.
EngineInit ==
    /\ cascade_chains = [c \in ChainIds |-> NoChain]
    /\ compound_groups = [g \in GroupIds |-> NoGroup]
    /\ cascade_run = NoCascadeRun
    /\ compound_run = NoCompoundRun
    /\ load_pair = NoLoadPair
    /\ RegistryInit

OrchInit(pool) ==
    /\ EngineInit
    /\ max_concurrent_tasks = pool
    /\ vertices = <<>>
    /\ task_queue = {}
    /\ task_counter = 0
    /\ active_tasks = [t \in TaskIds |-> NoFuture]
    /\ calls = <<>>
    /\ running = FALSE
    /\ worker_tasks = <<>>
    /\ stop_pc = "idle"
    /\ execution_history = [id \in AlgIds |-> <<>>]
    /\ performance_stats = [id \in AlgIds |-> NoStats]
    /\ pickup = <<>>
    /\ topology_call = NoTopologyCall

(***************************************************************************)
(* Vertices                                                                *)
(***************************************************************************)
HasVertex(vs, vid) == \E i \in 1..Len(vs) : vs[i].vertex_id = vid

VertexOf(vs, vid) == vs[CHOOSE i \in 1..Len(vs) : vs[i].vertex_id = vid]

\* VertexNode(vertex_id=..., max_capacity=...): no connections, load_factor 0.0,
\* active_tasks 0.
\* load_factor is kept doubled (cpu + memory), so that it stays an integer.
NewVertex(vid, cap) ==
    [vertex_id |-> vid, connections |-> <<>>, load_factor_x2 |-> 0, active_tasks |-> 0,
     max_capacity |-> cap]

\* create_vertex: self.vertices[vertex_id] = vertex; a new key goes last in the
\* dict, a known key keeps its place and gets the fresh node.
CreateVertexIn(vs, vid, cap) ==
    IF HasVertex(vs, vid)
    THEN [i \in 1..Len(vs) |-> IF vs[i].vertex_id = vid THEN NewVertex(vid, cap) ELSE vs[i]]
    ELSE Append(vs, NewVertex(vid, cap))

\* A plausible slip: the key is the load factor alone.
MutScoreLessLoadOnly(a, b) == a.load_factor_x2 < b.load_factor_x2

\* x[1].load_factor + x[1].active_tasks / x[1].max_capacity of vertex a is below
\* that of vertex b (both sides multiplied by 2 * a.max_capacity * b.max_capacity).
ScoreLess(a, b) ==
    (a.load_factor_x2 * a.max_capacity + 2 * a.active_tasks) * b.max_capacity
        < (b.load_factor_x2 * b.max_capacity + 2 * b.active_tasks) * a.max_capacity

\* _select_optimal_vertex: the vertex table after the call and the id returned.
\* min() returns the first item, in dict order, that no other item is below.
SelectOptimalVertex(vs) ==
    IF Len(vs) = 0
    THEN [vertices |-> CreateVertexIn(vs, "default_vertex", DefaultMaxCapacity),
          vertex_id |-> "default_vertex"]
    ELSE LET i == CHOOSE i \in 1..Len(vs) :
                     /\ \A j \in 1..Len(vs) : ~ScoreLess(vs[j], vs[i])
                     /\ \A j \in 1..(i - 1) : ScoreLess(vs[i], vs[j])
         IN [vertices |-> vs, vertex_id |-> vs[i].vertex_id]

\* _process_task, line 421-422: active_tasks += 1 if the vertex exists.
AcquireVertex(vs, vid) ==
    [i \in 1..Len(vs) |->
        IF vs[i].vertex_id = vid
        THEN [vs[i] EXCEPT !.active_tasks = @ + 1]
        ELSE vs[i]]

\* A plausible slip: the decrement without the max(0, ...) clamp.
MutReleaseVertexUnclamped(vs, vid) ==
    [i \in 1..Len(vs) |->
        IF vs[i].vertex_id = vid
        THEN [vs[i] EXCEPT !.active_tasks = @ - 1]
        ELSE vs[i]]

\* _process_task's finally, line 453-454: active_tasks = max(0, active_tasks - 1)
\* if the vertex exists.
ReleaseVertex(vs, vid) ==
    [i \in 1..Len(vs) |->
        IF vs[i].vertex_id = vid
        THEN [vs[i] EXCEPT !.active_tasks = Max(0, @ - 1)]
        ELSE vs[i]]

\* A plausible slip: the decrement at the end of the try block instead of in a
\* finally clause, so that a run ended by CancelledError skips it.
MutReleaseOnCancelSkipped(vs, vid) == vs

\* Lines 451-454 when CancelledError leaves _process_task: the finally clause
\* runs the same decrement.
ReleaseOnCancel(vs, vid) == ReleaseVertex(vs, vid)

(***************************************************************************)
(* PerformanceTracker                                                      *)
(***************************************************************************)
TrackerWindow == 1000

\* A plausible slip: the slice keeps the first 1000 records, not the last.
MutRecordExecutionKeepsFirst(hist, id, success) ==
    LET h == Append(hist[id], success)
    IN [hist EXCEPT ![id] = IF Len(h) > TrackerWindow
                            THEN SubSeq(h, 1, TrackerWindow)
                            ELSE h]

\* record_execution: append the record, keep the last 1000.  Only the success
\* flag of a record is modelled.
RecordExecution(hist, id, success) ==
    LET h == Append(hist[id], success)
    IN [hist EXCEPT ![id] = IF Len(h) > TrackerWindow
                            THEN SubSeq(h, Len(h) - TrackerWindow + 1, Len(h))
                            ELSE h]

\* _update_performance_stats, lines 538-549: the statistics computed from the
\* history h of an id that has records.
StatsOf(h) ==
    [total_executions |-> Len(h),
     success_rate_num |-> Cardinality({i \in 1..Len(h) : h[i]}),
     success_rate_den |-> Len(h)]

\* _update_performance_stats(algorithm_id), called at the end of record_execution:
\* nothing when the history is empty.
UpdatePerformanceStats(stats, hist, id) ==
    IF Len(hist[id]) = 0
    THEN stats
    ELSE [stats EXCEPT ![id] = StatsOf(hist[id])]

\* record_execution(algorithm_id, execution_time, success) called on the tracker;
\* the record's timestamp is a reading of the clock, which moves on with each call.
RecordExecutionCall(id, success) ==
    /\ execution_history' = RecordExecution(execution_history, id, success)
    /\ performance_stats' = UpdatePerformanceStats(performance_stats, execution_history', id)
    /\ now' = now + 1
    /\ UNCHANGED <<max_cache_size, algorithm_cache, algorithm_metadata,
                   algorithm_registry, n_created, last_load>>
    /\ UNCHANGED <<max_concurrent_tasks, vertices, task_queue, task_counter, active_tasks,
                   calls, running, worker_tasks, stop_pc, pickup, topology_call>>
    /\ UNCHANGED engineVars
    /\ UNCHANGED registryVars

(***************************************************************************)
(* BaseAlgorithm.execute_with_cache (src/algorithms/algorithm_registry.py) *)
(* on one algorithm object.  An input is named by a number; distinct       *)
(* inputs have distinct cache keys (the MD5 of their JSON text).           *)
(***************************************************************************)
InCache(c, key) == \E i \in 1..Len(c) : c[i] = key

\* self.cache[cache_key] = result: a new key goes last, a known key keeps its place.
CachePut(c, key) == IF InCache(c, key) THEN c ELSE Append(c, key)

\* A plausible slip: the size is never limited.
MutTrimCacheNever(c) == c

\* Lines 69-73: when the cache holds more than 1000 entries, the first 100 keys
\* of the dict are deleted.
TrimCache(c) ==
    IF Len(c) > ResultCacheLimit
    THEN SubSeq(c, Min(ResultCacheTrim, Len(c)) + 1, Len(c))
    ELSE c

\* The inputs for which the algorithm's execute() raises.
RejectedInputs == {1}

\* Without element j.
Without(q, j) == [i \in 1..(Len(q) - 1) |-> IF i < j THEN q[i] ELSE q[i + 1]]

\* execute_with_cache(data) up to `await self.execute(data, context)`: a key that
\* is cached is a hit and the call returns; otherwise the call is suspended in
\* execute().
ExecuteWithCacheCall(key) ==
    /\ cache_inputs' = Max(cache_inputs, key + 1)
    /\ IF InCache(result_cache, key)
       THEN /\ cache_call' = [key |-> key, outcome |-> "hit",
                              size_before |-> Len(result_cache)]
            /\ UNCHANGED cache_pending
       ELSE /\ cache_call' = [key |-> key, outcome |-> "miss",
                              size_before |-> Len(result_cache)]
            /\ cache_pending' = Append(cache_pending, key)
    /\ UNCHANGED result_cache
    /\ UNCHANGED loaderVars
    /\ UNCHANGED orchVars
    /\ UNCHANGED engineVars

\* The suspended call j is resumed: execute() has returned, the result is cached
\* and the cache trimmed, or execute() has raised and the cache is left alone.
ExecuteWithCacheResume(j) ==
    /\ j \in 1..Len(cache_pending)
    /\ LET key == cache_pending[j]
       IN IF key \in RejectedInputs
          THEN /\ cache_call' = [key |-> key, outcome |-> "raised",
                                 size_before |-> Len(result_cache)]
               /\ UNCHANGED result_cache
          ELSE /\ cache_call' = [key |-> key, outcome |-> "cached",
                                 size_before |-> Len(result_cache)]
               /\ result_cache' = TrimCache(CachePut(result_cache, key))
    /\ cache_pending' = Without(cache_pending, j)
    /\ UNCHANGED cache_inputs
    /\ UNCHANGED loaderVars
    /\ UNCHANGED orchVars
    /\ UNCHANGED engineVars

(***************************************************************************)
(* The priority queue: asyncio.PriorityQueue over (priority.value,         *)
(* task_counter, task_data) tuples.                                        *)
(***************************************************************************)
\* Python's tuple order on the first two components; the counters are unique, so
\* task_data is never compared.
EntryLess(a, b) ==
    \/ a.priority < b.priority
    \/ a.priority = b.priority /\ a.counter < b.counter

\* A plausible slip: a plain FIFO queue, the priority ignored.
MutQueueHeadFifo(q) == CHOOSE e \in q : \A o \in q : e.counter <= o.counter

\* What task_queue.get() returns: the least entry of the heap.
QueueHead(q) == CHOOSE e \in q : \A o \in q \ {e} : EntryLess(e, o)

(***************************************************************************)
(* CascadingAlgorithmEngine._execute_algorithm on an instance              *)
(***************************************************************************)
\* The instance has an async execute() that suspends before it finishes.
Suspends(inst) == inst.factory \in {"double", "boom"}

\* What executing the instance on data ends in: an int ("value"), the bool True
\* ("bool", which Python counts as the int 1), a result that is no number
\* ("object": a dict built around data), or an exception.
ExecuteOutcome(inst, data) ==
    CASE inst.factory = "double" -> [kind |-> "value", value |-> data * 2, error |-> None]
      [] inst.factory = "triple" -> [kind |-> "value", value |-> data * 3, error |-> None]
      [] inst.factory = "inc"    -> [kind |-> "value", value |-> data + 1, error |-> None]
      [] inst.factory = "describe" -> [kind |-> "object", value |-> data, error |-> None]
      [] inst.factory = "flag"   -> [kind |-> "bool", value |-> 1, error |-> None]
      [] inst.factory = "boom"   -> [kind |-> "raise", value |-> 0, error |-> "AlgorithmError"]
      [] OTHER                   -> [kind |-> "raise", value |-> 0, error |-> "ValueError"]

LoadFailedOutcome == [kind |-> "raise", value |-> 0, error |-> "RuntimeError"]

(***************************************************************************)
(* VertexOrchestrator.execute_task and its caller                          *)
(***************************************************************************)
\* The task a call stands for has been taken by a worker / has left the worker.
AnyPicked == Len(pickup) > 0
AnyFinished == \E k \in 1..Len(calls) : calls[k].phase \in {"done", "aborted"}

\* execute_task up to `await result_future`.  PriorityQueue() is unbounded, so
\* `await self.task_queue.put(...)` does not suspend: the put and the registration
\* of the future are one step.  The future of the call with counter c is named c.
Submit(tid, alg, data, prio, vid) ==
    LET sel == IF vid = None
               THEN SelectOptimalVertex(vertices)
               ELSE [vertices |-> vertices, vertex_id |-> vid]
        td == [task_id |-> tid, algorithm_id |-> alg, data |-> data,
               vertex_id |-> sel.vertex_id]
    IN /\ vertices' = sel.vertices
       /\ task_queue' = task_queue \cup
              {[priority |-> prio, counter |-> task_counter, task_data |-> td]}
       /\ task_counter' = task_counter + 1
       /\ active_tasks' = [active_tasks EXCEPT ![tid] = task_counter]
       /\ calls' = Append(calls,
              [task_id |-> tid, algorithm_id |-> alg, data |-> data, priority |-> prio,
               vertex_id |-> sel.vertex_id, fut |-> "pending", result |-> 0,
               error |-> None, returned |-> FALSE, phase |-> "queued",
               after_pick |-> AnyPicked, after_finish |-> AnyFinished,
               at_stop |-> None, recorded |-> <<>>])
       /\ UNCHANGED <<max_concurrent_tasks, running, worker_tasks, stop_pc,
                      execution_history,
                      performance_stats, pickup>>
       /\ UNCHANGED loaderVars
       /\ UNCHANGED topology_call
       /\ UNCHANGED engineVars
       /\ UNCHANGED registryVars

\* The caller resumes from `await result_future`: the finally clause removes
\* whatever active_tasks holds under its task id, and execute_task returns or raises.
CallerReturn(k) ==
    /\ k \in 1..Len(calls)
    /\ calls[k].fut # "pending"
    /\ ~calls[k].returned
    /\ calls' = [calls EXCEPT ![k].returned = TRUE]
    /\ active_tasks' = [active_tasks EXCEPT ![calls[k].task_id] = NoFuture]
    /\ UNCHANGED <<max_concurrent_tasks, vertices, task_queue, task_counter, running,
                   worker_tasks, stop_pc, execution_history,
                   performance_stats, pickup>>
    /\ UNCHANGED loaderVars
    /\ UNCHANGED topology_call
    /\ UNCHANGED engineVars
    /\ UNCHANGED registryVars

\* The caller stops waiting: the task that runs execute_task is cancelled (by the
\* timeout of an enclosing wait_for, or directly).  cancel() cancels the future the
\* call awaits at once; the call itself is resumed later, in CallerReturn, where
\* its finally clause runs.
CallerCancel(k) ==
    /\ k \in 1..Len(calls)
    /\ calls[k].fut = "pending"
    /\ ~calls[k].returned
    /\ calls' = [calls EXCEPT ![k].fut = "cancelled"]
    /\ UNCHANGED <<max_concurrent_tasks, vertices, task_queue, task_counter, active_tasks,
                   running, worker_tasks, stop_pc, execution_history, performance_stats,
                   pickup, topology_call>>
    /\ UNCHANGED loaderVars
    /\ UNCHANGED engineVars
    /\ UNCHANGED registryVars

\* A plausible slip: only the first vertex learns of the edge.
MutConnectOneWay(vs, a, b) ==
    IF HasVertex(vs, a) /\ HasVertex(vs, b)
    THEN [i \in 1..Len(vs) |->
             IF vs[i].vertex_id = a
             THEN [vs[i] EXCEPT !.connections = Append(@, b)]
             ELSE vs[i]]
    ELSE vs

\* connect_vertices, lines 311-313: when both ids are in the table, vertex_b is
\* appended to vertex_a's list and then vertex_a to vertex_b's; otherwise nothing.
ConnectVerticesIn(vs, a, b) ==
    IF HasVertex(vs, a) /\ HasVertex(vs, b)
    THEN LET v1 == [i \in 1..Len(vs) |->
                      IF vs[i].vertex_id = a
                      THEN [vs[i] EXCEPT !.connections = Append(@, b)]
                      ELSE vs[i]]
         IN [i \in 1..Len(v1) |->
                IF v1[i].vertex_id = b
                THEN [v1[i] EXCEPT !.connections = Append(@, a)]
                ELSE v1[i]]
    ELSE vs

\* connect_vertices(vertex_a, vertex_b)
ConnectVertices(a, b) ==
    /\ vertices' = ConnectVerticesIn(vertices, a, b)
    /\ topology_call' = [op |-> "connect_vertices", a |-> a, b |-> b, max_capacity |-> 0]
    /\ UNCHANGED <<max_concurrent_tasks, task_queue, task_counter, active_tasks, calls,
                   running, worker_tasks, stop_pc, execution_history,
                   performance_stats, pickup>>
    /\ UNCHANGED loaderVars
    /\ UNCHANGED engineVars
    /\ UNCHANGED registryVars

\* create_vertex(vertex_id, max_capacity)
CreateVertex(vid, cap) ==
    /\ vertices' = CreateVertexIn(vertices, vid, cap)
    /\ topology_call' = [op |-> "create_vertex", a |-> vid, b |-> None,
                         max_capacity |-> cap]
    /\ UNCHANGED <<max_concurrent_tasks, task_queue, task_counter, active_tasks, calls,
                   running, worker_tasks, stop_pc, execution_history,
                   performance_stats, pickup>>
    /\ UNCHANGED loaderVars
    /\ UNCHANGED engineVars
    /\ UNCHANGED registryVars

(***************************************************************************)
(* _process_task: delivering the outcome                                   *)
(***************************************************************************)
\* The future active_tasks holds under tid: "absent", "pending" or "done".
FutureUnder(at, cs, tid) ==
    IF at[tid] = NoFuture THEN "absent"
    ELSE IF cs[at[tid] + 1].fut = "pending" THEN "pending" ELSE "done"

\* A plausible slip: the outcome is recorded but no future is ever resolved.
MutDeliverNothing(at, cs, tid, out) == cs

\* Lines 437-438 and 446-447: set_result / set_exception on active_tasks[task_id]
\* when the id is in active_tasks.  On a future that is already done both raise
\* InvalidStateError and leave the future as it is.
Deliver(at, cs, tid, out) ==
    IF FutureUnder(at, cs, tid) = "pending"
    THEN [cs EXCEPT ![at[tid] + 1].fut = IF out.kind = "raise" THEN "exception" ELSE "result",
                    ![at[tid] + 1].result = out.value,
                    ![at[tid] + 1].error = out.error]
    ELSE cs

\* Lines 432-449: the records the tracker gets.  A success is recorded before
\* set_result; if set_result then raises InvalidStateError the except clause
\* records a failure as well.
Recorded(hist, at, cs, tid, alg, out) ==
    IF out.kind # "raise"
    THEN IF FutureUnder(at, cs, tid) = "done"
         THEN RecordExecution(RecordExecution(hist, alg, TRUE), alg, FALSE)
         ELSE RecordExecution(hist, alg, TRUE)
    ELSE RecordExecution(hist, alg, FALSE)

\* The success flags of the record_execution calls one run of _process_task makes,
\* in order: the try branch (line 433) records True, the except branch (line 444)
\* False; a run whose set_result raises goes through both.
Branches(at, cs, tid, out) ==
    IF out.kind # "raise"
    THEN IF FutureUnder(at, cs, tid) = "done" THEN <<TRUE, FALSE>> ELSE <<TRUE>>
    ELSE <<FALSE>>

\* `while self._running:` when the worker comes back to the top of its loop.
LoopTop == IF running THEN "get" ELSE "exited"

\* A plausible slip: the worker has no `except Exception`, so the
\* InvalidStateError of a delivery to a future that is done ends its loop.
MutWorkerNextUncaught(at, cs, tid, out) ==
    IF FutureUnder(at, cs, tid) = "done" THEN "exited" ELSE LoopTop

\* _worker, lines 403-408: where the worker is once _process_task has ended.
\* _process_task catches what the load and the algorithm raise; what set_result or
\* set_exception raise (InvalidStateError) leaves it and is caught by the worker's
\* `except Exception`.  Either way the worker is back at the top of its loop.
WorkerNext(at, cs, tid, out) == LoopTop

(***************************************************************************)
(* start(), stop(), the worker and monitor coroutines                      *)
(***************************************************************************)
NewCoroutine(kind) ==
    [kind |-> kind, pc |-> "new", cancel |-> FALSE, task |-> NoEntry,
     algorithm |-> NoInstance]

Done(w) == w.pc \in {"exited", "cancelled"}

\* The coroutines one start() call creates: min(max_concurrent_tasks, 10) workers
\* and one monitor.
NewPool ==
    [i \in 1..(Min(max_concurrent_tasks, WorkerPoolCap) + 1) |->
        IF i <= Min(max_concurrent_tasks, WorkerPoolCap)
        THEN NewCoroutine("worker")
        ELSE NewCoroutine("monitor")]

\* start(), whatever the orchestrator's state: the flag is set and the new
\* coroutines are appended to _worker_tasks; none of them runs before start()
\* returns.
StartCall ==
    /\ running' = TRUE
    /\ worker_tasks' = worker_tasks \o NewPool
    /\ UNCHANGED <<max_concurrent_tasks, vertices, task_queue, task_counter,
                   active_tasks, calls, stop_pc, execution_history,
                   performance_stats, pickup>>
    /\ UNCHANGED loaderVars
    /\ UNCHANGED topology_call
    /\ UNCHANGED engineVars
    /\ UNCHANGED registryVars

\* start() called once, on an orchestrator that was never started.
Start ==
    /\ worker_tasks = <<>>
    /\ stop_pc = "idle"
    /\ StartCall

\* stop(), lines 294-295: task.cancel() on every task of _worker_tasks; a task that
\* is done is not affected.
CancelAll(ws) ==
    [i \in 1..Len(ws) |-> IF Done(ws[i]) THEN ws[i] ELSE [ws[i] EXCEPT !.cancel = TRUE]]

\* stop() up to `await asyncio.gather(...)`.  stop() is called once, after start().
\* Each call's task phase at this moment is noted in at_stop.
Stop ==
    /\ running
    /\ stop_pc = "idle"
    /\ running' = FALSE
    /\ worker_tasks' = CancelAll(worker_tasks)
    /\ stop_pc' = "waiting"
    /\ calls' = [k \in 1..Len(calls) |-> [calls[k] EXCEPT !.at_stop = calls[k].phase]]
    /\ UNCHANGED <<max_concurrent_tasks, vertices, task_queue, task_counter,
                   active_tasks, execution_history,
                   performance_stats, pickup>>
    /\ UNCHANGED loaderVars
    /\ UNCHANGED topology_call
    /\ UNCHANGED engineVars
    /\ UNCHANGED registryVars

\* gather() completes when every task of _worker_tasks is done: stop() returns.
StopReturn ==
    /\ stop_pc = "waiting"
    /\ \A i \in 1..Len(worker_tasks) : Done(worker_tasks[i])
    /\ stop_pc' = "returned"
    /\ UNCHANGED <<max_concurrent_tasks, vertices, task_queue, task_counter,
                   active_tasks, calls, running, worker_tasks, execution_history,
                   performance_stats, pickup>>
    /\ UNCHANGED loaderVars
    /\ UNCHANGED topology_call
    /\ UNCHANGED engineVars
    /\ UNCHANGED registryVars

\* A worker that is not processing a task is resumed without an item: on its first
\* step, by the 1.0 s timeout of wait_for, or by the CancelledError of stop().
WorkerIdle(i) ==
    LET w == worker_tasks[i]
    IN /\ i \in 1..Len(worker_tasks)
       /\ w.kind = "worker"
       /\ w.pc \in {"new", "get"}
       /\ w.pc = "new" \/ w.cancel \/ ~running
       /\ worker_tasks' = [worker_tasks EXCEPT ![i].pc =
              IF w.cancel THEN "cancelled" ELSE LoopTop]
       /\ UNCHANGED <<max_concurrent_tasks, vertices, task_queue, task_counter,
                      active_tasks, calls, running, stop_pc, execution_history,
                      performance_stats, pickup>>
       /\ UNCHANGED loaderVars
       /\ UNCHANGED topology_call
       /\ UNCHANGED engineVars
       /\ UNCHANGED registryVars

\* Whether `await asyncio.wait_for(self.task_queue.get(), timeout=1.0)` may hand the
\* worker an item.  A worker that stop() has cancelled can still get one: the
\* wait_for of CPython 3.11 (the interpreter scripts/deploy_production.py requires
\* and builds on) returns the result of a get() that completed, and drops the
\* CancelledError, when the worker is resumed; later versions raise instead.
MayDequeue(w) == w.kind = "worker" /\ w.pc = "get"

\* The worker gets the least entry of the queue and runs _process_task up to the
\* algorithm's first suspension, or to the end when nothing suspends.  Time moves
\* on by one reading per task taken.
WorkerDequeue(i) ==
    LET w == worker_tasks[i]
        e == QueueHead(task_queue)
        td == e.task_data
        k == e.counter + 1
        v1 == AcquireVertex(vertices, td.vertex_id)
        ld == LoadAlgorithm(td.algorithm_id, algorithm_cache, algorithm_metadata,
                            algorithm_registry, n_created, max_cache_size, now)
        out == IF ld.result = NoInstance
               THEN LoadFailedOutcome
               ELSE ExecuteOutcome(ld.result, td.data)
        suspended == ld.result # NoInstance /\ Suspends(ld.result)
    IN /\ i \in 1..Len(worker_tasks)
       /\ MayDequeue(w)
       /\ task_queue # {}
       /\ task_queue' = task_queue \ {e}
       /\ pickup' = Append(pickup, e.counter)
       /\ algorithm_cache' = ld.cache
       /\ algorithm_metadata' = ld.meta
       /\ n_created' = ld.created
       /\ now' = now + 1
       /\ IF suspended
          THEN /\ vertices' = v1
               /\ worker_tasks' = [worker_tasks EXCEPT ![i] =
                      [w EXCEPT !.pc = "exec", !.cancel = FALSE, !.task = e,
                                !.algorithm = ld.result]]
               /\ calls' = [calls EXCEPT ![k].phase = "running"]
               /\ UNCHANGED <<execution_history, performance_stats>>
          ELSE /\ vertices' = ReleaseVertex(v1, td.vertex_id)
               /\ worker_tasks' = [worker_tasks EXCEPT ![i] =
                      [w EXCEPT !.pc = WorkerNext(active_tasks, calls, td.task_id, out),
                                !.cancel = FALSE]]
               /\ calls' = [Deliver(active_tasks, calls, td.task_id, out)
                               EXCEPT ![k].phase = "done",
                                      ![k].recorded = Branches(active_tasks, calls,
                                                               td.task_id, out)]
               /\ execution_history' = Recorded(execution_history, active_tasks, calls,
                                                td.task_id, td.algorithm_id, out)
               /\ performance_stats' =
                      UpdatePerformanceStats(performance_stats, execution_history',
                                             td.algorithm_id)
       /\ UNCHANGED <<max_cache_size, algorithm_registry, last_load>>
       /\ UNCHANGED <<max_concurrent_tasks, task_counter, active_tasks, running, stop_pc>>
       /\ UNCHANGED topology_call
       /\ UNCHANGED engineVars
       /\ UNCHANGED registryVars

\* The worker is resumed inside the algorithm's execute().  If stop() cancelled it,
\* CancelledError is raised there: it is no Exception, so only the finally clause
\* of _process_task runs and the worker ends.  Otherwise execute() finishes and
\* _process_task runs to its end.
WorkerResume(i) ==
    LET w == worker_tasks[i]
        td == w.task.task_data
        k == w.task.counter + 1
        out == ExecuteOutcome(w.algorithm, td.data)
    IN /\ i \in 1..Len(worker_tasks)
       /\ w.kind = "worker"
       /\ w.pc = "exec"
       /\ vertices' = IF w.cancel
                      THEN ReleaseOnCancel(vertices, td.vertex_id)
                      ELSE ReleaseVertex(vertices, td.vertex_id)
       /\ IF w.cancel
          THEN /\ worker_tasks' = [worker_tasks EXCEPT ![i] =
                      [w EXCEPT !.pc = "cancelled", !.task = NoEntry,
                                !.algorithm = NoInstance]]
               /\ calls' = [calls EXCEPT ![k].phase = "aborted"]
               /\ UNCHANGED <<execution_history, performance_stats>>
          ELSE /\ worker_tasks' = [worker_tasks EXCEPT ![i] =
                      [w EXCEPT !.pc = WorkerNext(active_tasks, calls, td.task_id, out),
                                !.task = NoEntry, !.algorithm = NoInstance]]
               /\ calls' = [Deliver(active_tasks, calls, td.task_id, out)
                               EXCEPT ![k].phase = "done",
                                      ![k].recorded = Branches(active_tasks, calls,
                                                               td.task_id, out)]
               /\ execution_history' = Recorded(execution_history, active_tasks, calls,
                                                td.task_id, td.algorithm_id, out)
               /\ performance_stats' =
                      UpdatePerformanceStats(performance_stats, execution_history',
                                             td.algorithm_id)
       /\ UNCHANGED <<max_concurrent_tasks, task_queue, task_counter, active_tasks,
                      running, stop_pc, pickup>>
       /\ UNCHANGED loaderVars
       /\ UNCHANGED topology_call
       /\ UNCHANGED engineVars
       /\ UNCHANGED registryVars

\* The (cpu, memory) percentages update_metrics() can leave in the monitor: the
\* fallback values when psutil is missing.
Samples == {<<FallbackCpu, FallbackMemory>>}

\* _monitor_resources: one round of the loop, up to `await asyncio.sleep(5)`.
MonitorStep(i, sample) ==
    LET w == worker_tasks[i]
    IN /\ i \in 1..Len(worker_tasks)
       /\ w.kind = "monitor"
       /\ w.pc \in {"new", "sleep"}
       /\ IF w.cancel \/ ~running
          THEN /\ worker_tasks' = [worker_tasks EXCEPT ![i].pc =
                      IF w.cancel THEN "cancelled" ELSE "exited"]
               /\ UNCHANGED vertices
          ELSE /\ worker_tasks' = [worker_tasks EXCEPT ![i].pc = "sleep"]
               /\ vertices' = [j \in 1..Len(vertices) |->
                      [vertices[j] EXCEPT !.load_factor_x2 = sample[1] + sample[2]]]
       /\ UNCHANGED <<max_concurrent_tasks, task_queue, task_counter, active_tasks,
                      calls, running, stop_pc, execution_history,
                      performance_stats, pickup>>
       /\ UNCHANGED loaderVars
       /\ UNCHANGED topology_call
       /\ UNCHANGED engineVars
       /\ UNCHANGED registryVars

(***************************************************************************)
(* CascadingAlgorithmEngine: cascade chains                                *)
(***************************************************************************)
\* define_cascade_chain(chain_id, algorithm_sequence)
DefineCascadeChain(cid, seq) ==
    /\ cascade_chains' = [cascade_chains EXCEPT ![cid] = [defined |-> TRUE, stages |-> seq]]
    /\ UNCHANGED <<compound_groups, cascade_run, compound_run, load_pair>>
    /\ UNCHANGED registryVars
    /\ UNCHANGED loaderVars
    /\ UNCHANGED orchVars

\* _execute_algorithm on a payload: Python raises TypeError when the arithmetic
\* of double, triple or inc meets an object that is no number.
ExecuteOn(inst, val) ==
    IF val.kind = "object" /\ inst.factory \in {"double", "triple", "inc"}
    THEN [kind |-> "raise", value |-> 0, error |-> "TypeError"]
    ELSE ExecuteOutcome(inst, val.value)

\* The payload an outcome that is no exception carries.
Payload(out) == [kind |-> out.kind, value |-> out.value]

\* `chain_id not in self.cascade_chains`, negated.
ChainDefined(chains, cid) == chains[cid].defined

\* A plausible slip: a failing stage ends the call with the exception.
MutStagePropagates(st, entry) ==
    [st EXCEPT !.pc = "raised", !.trace = Append(@, entry), !.held = NoInstance]

\* A plausible slip: a failing stage is skipped and the chain goes on.
MutStageSkipped(st, entry) ==
    [st EXCEPT !.idx = @ + 1, !.trace = Append(@, entry), !.held = NoInstance,
               !.pc = "loop"]

\* Lines 179-181 and 186-188: the stage failed to load or raised; `break`, and
\* line 190 returns current_data.
StageFailed(st, entry) ==
    [st EXCEPT !.pc = "returned", !.trace = Append(@, entry), !.held = NoInstance]

\* A plausible slip: the stage's result is dropped, the next stage gets the
\* payload again.
MutStageResultDropped(st, entry) ==
    [st EXCEPT !.idx = @ + 1, !.trace = Append(@, entry), !.held = NoInstance,
               !.pc = "loop"]

\* Line 184: current_data is replaced by the stage's result; on to the next stage.
StageDone(st, entry) ==
    [st EXCEPT !.current_data = entry.output, !.idx = @ + 1,
               !.trace = Append(@, entry), !.held = NoInstance, !.pc = "loop"]

\* What the trace keeps of one stage.
StageEntry(id, inst, input, outcome, output) ==
    [algorithm_id |-> id, instance |-> inst, input |-> input, outcome |-> outcome,
     output |-> output]

\* The stage's execution has ended in out.
StageOutcome(st, id, inst, out) ==
    IF out.kind = "raise"
    THEN StageFailed(st, StageEntry(id, inst, st.current_data, "raised", st.current_data))
    ELSE StageDone(st, StageEntry(id, inst, st.current_data, "ok", Payload(out)))

\* One round of `for algorithm_id in algorithm_sequence`, from the load up to the
\* algorithm's first suspension, or to the end of the round when nothing suspends.
\* st is the call's record together with the loader's cache, metadata and count.
CascadeRound(st) ==
    IF st.idx > Len(st.stages)
    THEN [st EXCEPT !.pc = "returned"]
    ELSE LET id == st.stages[st.idx]
             ld == LoadAlgorithm(id, st.cache, st.meta, algorithm_registry, st.created,
                                 max_cache_size, now)
             s1 == [st EXCEPT !.cache = ld.cache, !.meta = ld.meta,
                              !.created = ld.created]
         IN IF ld.result = NoInstance
            THEN StageFailed(s1, StageEntry(id, NoInstance, st.current_data,
                                            "load_failed", st.current_data))
            ELSE IF Suspends(ld.result)
            THEN [s1 EXCEPT !.pc = "exec", !.held = ld.result]
            ELSE StageOutcome(s1, id, ld.result, ExecuteOn(ld.result, st.current_data))

\* The loop runs on until the call suspends or ends.
RECURSIVE RunCascade(_)
RunCascade(st) == IF st.pc = "loop" THEN RunCascade(CascadeRound(st)) ELSE st

\* The call's record with the loader's state beside it, and back.
WithLoader(run) ==
    [pc |-> run.pc, n |-> run.n, chain |-> run.chain, stages |-> run.stages,
     idx |-> run.idx, input |-> run.input, current_data |-> run.current_data,
     held |-> run.held, trace |-> run.trace,
     cache |-> algorithm_cache, meta |-> algorithm_metadata, created |-> n_created]

CascadeRecord(st) ==
    [pc |-> st.pc, n |-> st.n, chain |-> st.chain, stages |-> st.stages,
     idx |-> st.idx, input |-> st.input, current_data |-> st.current_data,
     held |-> st.held, trace |-> st.trace]

\* A plausible slip: the pass-through counts the call as a task, recording its
\* first stage in the tracker.
MutCascadeEffectRecorded(st) ==
    /\ cascade_run' = CascadeRecord(st)
    /\ algorithm_cache' = st.cache
    /\ algorithm_metadata' = st.meta
    /\ n_created' = st.created
    /\ execution_history' =
          IF Len(st.stages) > 0 /\ st.pc = "returned"
          THEN RecordExecution(execution_history, st.stages[1], TRUE)
          ELSE execution_history
    /\ performance_stats' =
          IF Len(st.stages) > 0
          THEN UpdatePerformanceStats(performance_stats, execution_history', st.stages[1])
          ELSE performance_stats
    /\ UNCHANGED <<now, max_cache_size, algorithm_registry, last_load>>
    /\ UNCHANGED <<cascade_chains, compound_groups, compound_run, load_pair>>
    /\ UNCHANGED registryVars
    /\ UNCHANGED <<max_concurrent_tasks, vertices, task_queue, task_counter, active_tasks,
                   calls, running, worker_tasks, stop_pc, pickup, topology_call>>

\* What a step of execute_cascade changes: the call's own state and the loader's.
CascadeEffect(st) ==
    /\ cascade_run' = CascadeRecord(st)
    /\ algorithm_cache' = st.cache
    /\ algorithm_metadata' = st.meta
    /\ n_created' = st.created
    /\ UNCHANGED <<now, max_cache_size, algorithm_registry, last_load>>
    /\ UNCHANGED <<cascade_chains, compound_groups, compound_run, load_pair>>
    /\ UNCHANGED registryVars
    /\ UNCHANGED orchVars

\* VertexOrchestrator.execute_cascade(chain_id, initial_data), which hands the
\* call to the engine with its own loader and passes on what the engine returns
\* or raises: up to the first suspension.
CascadeCall(cid, data) ==
    /\ cascade_run.pc \in {"none", "returned", "raised"}
    /\ IF ChainDefined(cascade_chains, cid)
       THEN CascadeEffect(RunCascade(
                [WithLoader(NoCascadeRun) EXCEPT
                    !.pc = "loop", !.n = cascade_run.n + 1, !.chain = cid,
                    !.stages = cascade_chains[cid].stages, !.idx = 1,
                    !.input = Number(data), !.current_data = Number(data)]))
       ELSE CascadeEffect(
                [WithLoader(NoCascadeRun) EXCEPT
                    !.pc = "raised", !.n = cascade_run.n + 1, !.chain = cid,
                    !.input = Number(data), !.current_data = Number(data)])

\* The call is resumed when the algorithm it awaits has finished.
CascadeResume ==
    /\ cascade_run.pc = "exec"
    /\ LET st == WithLoader(cascade_run)
       IN CascadeEffect(RunCascade(
              StageOutcome(st, st.stages[st.idx], st.held,
                           ExecuteOn(st.held, st.current_data))))

(***************************************************************************)
(* CascadingAlgorithmEngine: compound groups                               *)
(***************************************************************************)
\* define_compound_group(group_id, algorithm_group)
DefineCompoundGroup(gid, members) ==
    /\ compound_groups' = [compound_groups EXCEPT
                              ![gid] = [defined |-> TRUE, members |-> members]]
    /\ UNCHANGED <<cascade_chains, cascade_run, compound_run, load_pair>>
    /\ UNCHANGED registryVars
    /\ UNCHANGED loaderVars
    /\ UNCHANGED orchVars

Null == [kind |-> "null", value |-> 0]

\* Lines 210-214: what compound_result keeps of one element of gather()'s list:
\* None for an exception, the result otherwise.
EntryOf(out) == IF out.kind = "raise" THEN Null ELSE Payload(out)

\* A plausible slip: a failed member gets no entry.
MutDictSetSkipsNone(d, key, entry) ==
    IF entry.kind = "null" THEN d
    ELSE IF \E i \in 1..Len(d) : d[i].key = key
    THEN [i \in 1..Len(d) |-> IF d[i].key = key THEN [key |-> key, entry |-> entry] ELSE d[i]]
    ELSE Append(d, [key |-> key, entry |-> entry])

\* dict.__setitem__: a new key goes last, a known key keeps its place and takes
\* the new value.
DictSet(d, key, entry) ==
    IF \E i \in 1..Len(d) : d[i].key = key
    THEN [i \in 1..Len(d) |-> IF d[i].key = key THEN [key |-> key, entry |-> entry] ELSE d[i]]
    ELSE Append(d, [key |-> key, entry |-> entry])

\* Lines 207-214: compound_result, built from the members' outcomes in group order.
RECURSIVE CompoundResult(_, _)
CompoundResult(members, results) ==
    IF Len(members) = 0 THEN <<>>
    ELSE DictSet(CompoundResult(SubSeq(members, 1, Len(members) - 1),
                                SubSeq(results, 1, Len(results) - 1)),
                 members[Len(members)], EntryOf(results[Len(results)]))

\* A plausible slip: None counts as the number 0.
MutNumericalWithNone(d) ==
    SelectSeq(d, LAMBDA e : e.entry.kind \in {"value", "bool", "null"})

\* Line 244: the items of results whose value is an int or a float by
\* isinstance(): bool is a subclass of int, so True and False are among them.
NumericalResults(d) == SelectSeq(d, LAMBDA e : e.entry.kind \in {"value", "bool"})

RECURSIVE SumValues(_)
SumValues(d) == IF Len(d) = 0 THEN 0 ELSE d[1].entry.value + SumValues(Tail(d))

\* _apply_compounding_enhancement: every weight is 1.0, total_weight their sum, and
\* compound_numerical the sum of v * 1.0 / total_weight, kept here as the exact
\* fraction total / weight.  The original entries follow under their own keys.
ApplyCompoundingEnhancement(d) ==
    LET numerical == NumericalResults(d)
    IN [entries |-> d,
        has_aggregate |-> Len(numerical) > 0,
        total |-> SumValues(numerical),
        weight |-> Len(numerical)]

\* A plausible slip: gather() without return_exceptions, a member's exception
\* ends the call.
MutGatheredPropagates(run) ==
    IF \E i \in 1..Len(run.results) : run.results[i].kind = "raise"
    THEN [run EXCEPT !.pc = "raised"]
    ELSE [run EXCEPT !.pc = "returned",
                     !.result = ApplyCompoundingEnhancement(
                                    CompoundResult(run.members, run.results))]

\* Lines 204-218: gather() has every member's result or exception; the call
\* returns the enhanced map.
Gathered(run) ==
    [run EXCEPT !.pc = "returned",
                !.result = ApplyCompoundingEnhancement(
                               CompoundResult(run.members, run.results))]

NoOutcome == [kind |-> "none", value |-> 0, error |-> None]

CompoundEffect(run, ld) ==
    /\ compound_run' = run
    /\ algorithm_cache' = ld.cache
    /\ algorithm_metadata' = ld.meta
    /\ n_created' = ld.created
    /\ UNCHANGED <<now, max_cache_size, algorithm_registry, last_load>>
    /\ UNCHANGED <<cascade_chains, compound_groups, cascade_run, load_pair>>
    /\ UNCHANGED registryVars
    /\ UNCHANGED orchVars

\* The loader's state as it is, in the shape LoadAlgorithm returns it.
LoaderAsIs ==
    [cache |-> algorithm_cache, meta |-> algorithm_metadata, created |-> n_created]

\* VertexOrchestrator.execute_compound(group_id, data), which hands the call to
\* the engine with its own loader: up to `await asyncio.gather(...)`.  gather()
\* of no awaitable is done at once, so the call on an empty group does not suspend.
CompoundCall(gid, data) ==
    /\ compound_run.pc \in {"none", "returned", "raised"}
    /\ LET members == compound_groups[gid].members
           run == [NoCompoundRun EXCEPT
                      !.n = compound_run.n + 1, !.group = gid, !.data = Number(data)]
       IN IF ~compound_groups[gid].defined
          THEN CompoundEffect([run EXCEPT !.pc = "raised"], LoaderAsIs)
          ELSE IF Len(members) = 0
          THEN CompoundEffect(Gathered(run), LoaderAsIs)
          ELSE CompoundEffect(
                   [run EXCEPT !.pc = "gathering", !.members = members,
                               !.member_pc = [i \in 1..Len(members) |-> "new"],
                               !.held = [i \in 1..Len(members) |-> NoInstance],
                               !.results = [i \in 1..Len(members) |-> NoOutcome]],
                   LoaderAsIs)

\* _execute_compound_algorithm for member i, from its first step to the
\* algorithm's first suspension.  gather() starts the members in group order.
CompoundMemberStart(i) ==
    /\ compound_run.pc = "gathering"
    /\ i \in 1..Len(compound_run.members)
    /\ compound_run.member_pc[i] = "new"
    /\ \A j \in 1..(i - 1) : compound_run.member_pc[j] # "new"
    /\ LET ld == LoadAlgorithm(compound_run.members[i], algorithm_cache,
                               algorithm_metadata, algorithm_registry, n_created,
                               max_cache_size, now)
       IN IF ld.result = NoInstance
          THEN CompoundEffect([compound_run EXCEPT !.member_pc[i] = "done",
                                                   !.results[i] = LoadFailedOutcome], ld)
          ELSE IF Suspends(ld.result)
          THEN CompoundEffect([compound_run EXCEPT !.member_pc[i] = "exec",
                                                   !.held[i] = ld.result], ld)
          ELSE CompoundEffect(
                   [compound_run EXCEPT
                       !.member_pc[i] = "done",
                       !.results[i] = ExecuteOn(ld.result, compound_run.data)], ld)

\* Member i is resumed when the algorithm it awaits has finished.
CompoundMemberFinish(i) ==
    /\ compound_run.pc = "gathering"
    /\ i \in 1..Len(compound_run.members)
    /\ compound_run.member_pc[i] = "exec"
    /\ CompoundEffect(
           [compound_run EXCEPT
               !.member_pc[i] = "done",
               !.held[i] = NoInstance,
               !.results[i] = ExecuteOn(compound_run.held[i], compound_run.data)],
           LoaderAsIs)

\* Every member is done: gather() resumes the call, which builds and returns the map.
CompoundReturn ==
    /\ compound_run.pc = "gathering"
    /\ \A i \in 1..Len(compound_run.members) : compound_run.member_pc[i] = "done"
    /\ CompoundEffect(Gathered(compound_run), LoaderAsIs)

(***************************************************************************)
(* Spec: a VertexOrchestrator(max_concurrent_tasks) with its own loader    *)
(* (LazyAlgorithmLoader(), capacity 100), under any interleaving of        *)
(* register_algorithm, create_vertex, start, execute_task, stop and the    *)
(* steps of the workers, the monitor and the callers.                      *)
(***************************************************************************)
\* The loader after register_algorithm has been called for each pair of regs, in
\* order, at configuration time (as create_vertex_orchestrator does).
RECURSIVE ConfiguredMetadata(_)
ConfiguredMetadata(regs) ==
    IF Len(regs) = 0 THEN <<>>
    ELSE SetMetadata(ConfiguredMetadata(SubSeq(regs, 1, Len(regs) - 1)),
                     regs[Len(regs)][1],
                     [algorithm_id |-> regs[Len(regs)][1], last_used |-> 0,
                      usage_count |-> 0])

ConfiguredRegistry(regs) ==
    [id \in AlgIds |->
        IF \E i \in 1..Len(regs) : regs[i][1] = id
        THEN regs[CHOOSE i \in 1..Len(regs) :
                     regs[i][1] = id /\ \A j \in (i + 1)..Len(regs) : regs[j][1] # id][2]
        ELSE None]

ConfiguredLoader(regs) ==
    /\ now = 0
    /\ max_cache_size = DefaultMaxCacheSize
    /\ algorithm_cache = [id \in AlgIds |-> NoInstance]
    /\ algorithm_metadata = ConfiguredMetadata(regs)
    /\ algorithm_registry = ConfiguredRegistry(regs)
    /\ n_created = 0
    /\ last_load = [id |-> None, outcome |-> None, result |-> NoInstance, size_before |-> 0,
                    evicted |-> None, retry |-> FALSE]

\* The registrations of the orchestrator specifications: "ghost" is never registered.
OrchRegistrations == <<<<"double", "double">>, <<"boom", "boom">>, <<"broken", "broken">>>>

\* The payload of the call with counter c: every call passes its own payload.
CallPayload(c) == 5 + 2 * c

Init ==
    /\ ConfiguredLoader(OrchRegistrations)
    /\ \E pool \in 1..MaxPoolBound : OrchInit(pool)

\* Callers may reuse a task id; every task names the vertex "v1", which exists
\* only once create_vertex("v1") has been called.
Next ==
    \/ /\ task_counter < MaxTasks
       /\ \E tid \in {"t1", "t2"}, alg \in CoreAlgIds :
             Submit(tid, alg, CallPayload(task_counter), MEDIUM, "v1")
    \/ \E k \in 1..Len(calls) : CallerReturn(k)
    \/ CreateVertex("v1", DefaultMaxCapacity)
    \/ Start
    \/ Stop
    \/ StopReturn
    \/ \E i \in 1..Len(worker_tasks) : WorkerIdle(i)
    \/ \E i \in 1..Len(worker_tasks) : WorkerDequeue(i)
    \/ \E i \in 1..Len(worker_tasks) : WorkerResume(i)
    \/ \E i \in 1..Len(worker_tasks), sample \in Samples : MonitorStep(i, sample)

Spec == Init /\ [][Next]_vars

(***************************************************************************)
(* SpecPriority: the orchestrator is started and never stopped; callers    *)
(* submit "double" tasks with fresh task ids and any of three priorities,  *)
(* and no vertex is named or created beyond the default one.               *)
(***************************************************************************)
PriorityLevels == {CRITICAL, MEDIUM, LOW}

NextPriority ==
    \/ /\ task_counter < MaxPrioTasks
       /\ task_counter < Len(TaskIdSeq)
       /\ \E prio \in PriorityLevels :
             Submit(TaskIdSeq[task_counter + 1], "double", CallPayload(task_counter),
                    prio, None)
    \/ \E k \in 1..Len(calls) : CallerReturn(k)
    \/ Start
    \/ \E i \in 1..Len(worker_tasks) : WorkerIdle(i)
    \/ \E i \in 1..Len(worker_tasks) : WorkerDequeue(i)
    \/ \E i \in 1..Len(worker_tasks) : WorkerResume(i)

SpecPriority == Init /\ [][NextPriority]_vars

(***************************************************************************)
(* SpecLive: the orchestrator is never stopped, every task id is used once *)
(* and every algorithm execution terminates.  The event loop runs every    *)
(* coroutine that is ready: a worker step that stays enabled is taken.     *)
(***************************************************************************)
NextLive ==
    \/ /\ task_counter < MaxTasks
       /\ task_counter < Len(TaskIdSeq)
       /\ \E alg \in CoreAlgIds :
             Submit(TaskIdSeq[task_counter + 1], alg, CallPayload(task_counter),
                    MEDIUM, None)
    \/ \E k \in 1..Len(calls) : CallerReturn(k)
    \/ Start
    \/ \E i \in 1..Len(worker_tasks) : WorkerIdle(i)
    \/ \E i \in 1..Len(worker_tasks) : WorkerDequeue(i)
    \/ \E i \in 1..Len(worker_tasks) : WorkerResume(i)

WorkerFairness ==
    \A i \in 1..(MaxPoolBound + 1) :
        /\ WF_vars(WorkerIdle(i))
        /\ WF_vars(WorkerDequeue(i))
        /\ WF_vars(WorkerResume(i))

SpecLive == Init /\ [][NextLive]_vars /\ WorkerFairness

(***************************************************************************)
(* SpecStart: start() may be called more than once and stop() never; the   *)
(* callers submit "double" tasks with fresh task ids.                      *)
(***************************************************************************)
NextStart ==
    \/ /\ Len(worker_tasks) < MaxStarts * (Min(max_concurrent_tasks, WorkerPoolCap) + 1)
       /\ StartCall
    \/ /\ task_counter < MaxTasks
       /\ task_counter < Len(TaskIdSeq)
       /\ Submit(TaskIdSeq[task_counter + 1], "double", CallPayload(task_counter),
                 MEDIUM, None)
    \/ \E k \in 1..Len(calls) : CallerReturn(k)
    \/ \E i \in 1..Len(worker_tasks) : WorkerIdle(i)
    \/ \E i \in 1..Len(worker_tasks) : WorkerDequeue(i)
    \/ \E i \in 1..Len(worker_tasks) : WorkerResume(i)
    \/ \E i \in 1..Len(worker_tasks), sample \in Samples : MonitorStep(i, sample)

SpecStart == Init /\ [][NextStart]_vars

(***************************************************************************)
(* SpecCascade: an orchestrator whose loader has six algorithms            *)
(* registered; chains are defined and redefined, execute_cascade is called *)
(* (one call at a time), and algorithms are registered again meanwhile.    *)
(***************************************************************************)
EngineRegistrations ==
    <<<<"double", "double">>, <<"inc", "inc">>, <<"describe", "describe">>,
      <<"flag", "flag">>, <<"boom", "boom">>, <<"broken", "broken">>>>

\* register_algorithm calls made while the engine is in use.
EngineReRegistrations == {<<"broken", "double">>, <<"inc", "shapeless">>}

\* The stage lists define_cascade_chain is called with.
ChainSeqs ==
    {<<>>, <<"double", "inc">>, <<"inc", "double">>, <<"double", "double">>,
     <<"ghost", "double">>, <<"double", "boom", "inc">>, <<"inc", "broken", "double">>,
     <<"inc", "describe">>, <<"describe", "inc">>}

InitEngine ==
    /\ ConfiguredLoader(EngineRegistrations)
    /\ OrchInit(1)

NextCascade ==
    \/ \E c \in ChainIds, seq \in ChainSeqs : DefineCascadeChain(c, seq)
    \/ /\ cascade_run.n < MaxRuns
       /\ \E c \in ChainIds, data \in Payloads : CascadeCall(c, data)
    \/ CascadeResume
    \/ \E r \in EngineReRegistrations : Register(r[1], r[2])

SpecCascade == InitEngine /\ [][NextCascade]_vars

(***************************************************************************)
(* SpecCompound: as SpecCascade, for compound groups and execute_compound. *)
(***************************************************************************)
\* The member lists define_compound_group is called with.
GroupSeqs ==
    {<<>>, <<"double">>, <<"describe">>, <<"broken", "boom">>, <<"double", "double">>,
     <<"double", "boom", "inc">>, <<"ghost", "describe", "double">>,
     <<"double", "boom", "describe", "inc">>, <<"double", "flag">>}

NextCompound ==
    \/ \E g \in GroupIds, members \in GroupSeqs : DefineCompoundGroup(g, members)
    \/ /\ compound_run.n < MaxRuns
       /\ \E g \in GroupIds, data \in Payloads : CompoundCall(g, data)
    \/ \E i \in 1..Len(compound_run.members) : CompoundMemberStart(i)
    \/ \E i \in 1..Len(compound_run.members) : CompoundMemberFinish(i)
    \/ CompoundReturn
    \/ \E r \in EngineReRegistrations : Register(r[1], r[2])

SpecCompound == InitEngine /\ [][NextCompound]_vars

(***************************************************************************)
(* SpecLoader: a LazyAlgorithmLoader(max_cache_size) used on its own, under *)
(* any sequence of register_algorithm and load_algorithm calls.            *)
(***************************************************************************)
\* (id, factory) pairs register_algorithm is called with: "broken" is registered
\* with a raising factory and may be registered again with a working one.
LoaderRegistrations == {<<"double", "double">>, <<"boom", "boom">>,
                        <<"broken", "broken">>, <<"broken", "double">>}

InitLoader ==
    /\ LoaderInit
    /\ max_cache_size \in 1..MaxCacheBound
    /\ OrchInit(1)

NextLoader ==
    \/ Tick
    \/ \E r \in LoaderRegistrations : Register(r[1], r[2])
    \/ \E id \in CoreAlgIds : Load(id)

SpecLoader == InitLoader /\ [][NextLoader]_vars

(***************************************************************************)
(* SpecRebind: a loader on which ids are registered again with another     *)
(* factory, before and after they have been loaded.                        *)
(***************************************************************************)
RebindRegistrations == {<<"double", "double">>, <<"double", "triple">>,
                        <<"boom", "boom">>, <<"boom", "shapeless">>}

NextRebind ==
    \/ \E r \in RebindRegistrations : Register(r[1], r[2])
    \/ \E id \in {"double", "boom"} : Load(id)

SpecRebind == InitLoader /\ [][NextRebind]_vars

(***************************************************************************)
(* SpecLoadPair: as SpecLoader, with every load immediately followed by a  *)
(* second load of the same id.                                             *)
(***************************************************************************)
NextLoadPair ==
    \/ Tick
    \/ \E r \in LoaderRegistrations : Register(r[1], r[2])
    \/ \E id \in CoreAlgIds : LoadTwice(id)

SpecLoadPair == InitLoader /\ [][NextLoadPair]_vars

(***************************************************************************)
(* SpecTopology: create_vertex and connect_vertices called in any order on *)
(* an orchestrator, with ids that exist, that exist already, or that are   *)
(* unknown ("v3" is never created).                                        *)
(***************************************************************************)
TopologyIds == {"v1", "v2"}
Capacities == {5, DefaultMaxCapacity}

NextTopology ==
    \/ \E vid \in TopologyIds, cap \in Capacities : CreateVertex(vid, cap)
    \/ /\ \A i \in 1..Len(vertices) : Len(vertices[i].connections) + 2 <= MaxConnections
       /\ \E a, b \in TopologyIds \cup {"v3"} : ConnectVertices(a, b)

SpecTopology == InitEngine /\ [][NextTopology]_vars

(***************************************************************************)
(* SpecSelect: tasks are submitted without a vertex id while vertices of   *)
(* capacity 1 and 2 are created, workers run the tasks and the monitor     *)
(* updates the load factors.                                               *)
(***************************************************************************)
SelectCapacities == {1, 2}

NextSelect ==
    \/ \E vid \in TopologyIds, cap \in SelectCapacities : CreateVertex(vid, cap)
    \/ /\ task_counter < MaxTasks
       /\ task_counter < Len(TaskIdSeq)
       /\ Submit(TaskIdSeq[task_counter + 1], "double", CallPayload(task_counter),
                 MEDIUM, None)
    \/ \E k \in 1..Len(calls) : CallerReturn(k)
    \/ Start
    \/ \E i \in 1..Len(worker_tasks) : WorkerIdle(i)
    \/ \E i \in 1..Len(worker_tasks) : WorkerDequeue(i)
    \/ \E i \in 1..Len(worker_tasks) : WorkerResume(i)
    \/ \E i \in 1..Len(worker_tasks), sample \in Samples : MonitorStep(i, sample)

SpecSelect == Init /\ [][NextSelect]_vars

(***************************************************************************)
(* SpecWorker: as SpecLive, with callers that may reuse a task id, so that *)
(* a worker can also fail while delivering a result.                       *)
(***************************************************************************)
NextWorker ==
    \/ /\ task_counter < MaxTasks
       /\ \E tid \in {"t1", "t2"}, alg \in CoreAlgIds :
             Submit(tid, alg, CallPayload(task_counter), MEDIUM, None)
    \/ \E k \in 1..Len(calls) : CallerReturn(k)
    \/ Start
    \/ \E i \in 1..Len(worker_tasks) : WorkerIdle(i)
    \/ \E i \in 1..Len(worker_tasks) : WorkerDequeue(i)
    \/ \E i \in 1..Len(worker_tasks) : WorkerResume(i)

SpecWorker == Init /\ [][NextWorker]_vars /\ WorkerFairness

(***************************************************************************)
(* SpecBypass: execute_cascade and execute_compound are called on an       *)
(* orchestrator that may or may not have been started and that has tasks   *)
(* queued or running.  The event loop resumes an engine call that is       *)
(* ready; nothing is assumed about the workers.                            *)
(***************************************************************************)
NextBypass ==
    \/ DefineCascadeChain("c1", <<"double", "inc">>)
    \/ DefineCompoundGroup("g1", <<"double", "boom">>)
    \/ /\ cascade_run.n < MaxBypassRuns
       /\ CascadeCall("c1", 5)
    \/ CascadeResume
    \/ /\ compound_run.n < MaxBypassRuns
       /\ CompoundCall("g1", 5)
    \/ \E i \in 1..Len(compound_run.members) : CompoundMemberStart(i)
    \/ \E i \in 1..Len(compound_run.members) : CompoundMemberFinish(i)
    \/ CompoundReturn
    \/ /\ task_counter < MaxBypassTasks
       /\ task_counter < Len(TaskIdSeq)
       /\ Submit(TaskIdSeq[task_counter + 1], "double", CallPayload(task_counter),
                 MEDIUM, None)
    \/ \E k \in 1..Len(calls) : CallerReturn(k)
    \/ Start
    \/ \E i \in 1..Len(worker_tasks) : WorkerIdle(i)
    \/ \E i \in 1..Len(worker_tasks) : WorkerDequeue(i)
    \/ \E i \in 1..Len(worker_tasks) : WorkerResume(i)

\* The event loop resumes every coroutine whose awaited algorithm has finished:
\* weak fairness of each resumption.  CascadeResume is enabled exactly when the
\* cascade call is suspended in an algorithm (cascade_run.pc = "exec"), so its
\* weak fairness is written with that condition in the place of ENABLED.
CascadeResumeFairness ==
    \/ []<>(cascade_run.pc # "exec")
    \/ []<><<CascadeResume>>_vars

EngineFairness ==
    /\ CascadeResumeFairness
    /\ WF_vars(CompoundReturn)
    /\ \A i \in 1..2 :
          /\ WF_vars(CompoundMemberStart(i))
          /\ WF_vars(CompoundMemberFinish(i))

SpecBypass == InitEngine /\ [][NextBypass]_vars /\ EngineFairness

(***************************************************************************)
(* SpecTracker: record_execution called on the orchestrator's tracker more *)
(* often than the tracker keeps records.  The first MaxEarlyCalls calls    *)
(* record any outcome of either id; the later ones are successes of        *)
(* "double".                                                               *)
(***************************************************************************)
TrackedIds == {"double", "boom"}

InitTracker ==
    /\ ConfiguredLoader(OrchRegistrations)
    /\ OrchInit(1)

NextTracker ==
    /\ now < MaxRecords
    /\ \E id \in TrackedIds, success \in BOOLEAN :
          /\ now < MaxEarlyCalls \/ (id = "double" /\ success)
          /\ RecordExecutionCall(id, success)

SpecTracker == InitTracker /\ [][NextTracker]_vars

(***************************************************************************)
(* SpecResultCache: execute_with_cache called on one algorithm with a new  *)
(* input, with the oldest or the newest cached input, or with an input of  *)
(* a call that is still suspended.  Calls overlap only for the first       *)
(* inputs and when the cache is within one entry of its limit.             *)
(***************************************************************************)
CallInputs ==
    (IF cache_inputs < MaxInputs THEN {cache_inputs} ELSE {})
    \cup (IF Len(result_cache) > 0
          THEN {result_cache[1], result_cache[Len(result_cache)]}
          ELSE {})
    \cup {cache_pending[j] : j \in 1..Len(cache_pending)}

MayOverlap ==
    \/ cache_inputs < MaxEarlyInputs
    \/ Len(result_cache) >= ResultCacheLimit - 1

NextResultCache ==
    \/ /\ Len(cache_pending) < MaxInFlight
       /\ Len(cache_pending) = 0 \/ MayOverlap
       /\ \E key \in CallInputs : ExecuteWithCacheCall(key)
    \/ \E j \in 1..Len(cache_pending) : ExecuteWithCacheResume(j)

SpecResultCache == InitTracker /\ [][NextResultCache]_vars

(***************************************************************************)
(* SpecGiveUp: every task id is used once and the orchestrator is never    *)
(* stopped; a caller may stop waiting for its task at any time.            *)
(***************************************************************************)
NextGiveUp ==
    \/ /\ task_counter < MaxTasks
       /\ task_counter < Len(TaskIdSeq)
       /\ \E alg \in CoreAlgIds :
             Submit(TaskIdSeq[task_counter + 1], alg, CallPayload(task_counter),
                    MEDIUM, None)
    \/ \E k \in 1..Len(calls) : CallerCancel(k)
    \/ \E k \in 1..Len(calls) : CallerReturn(k)
    \/ Start
    \/ \E i \in 1..Len(worker_tasks) : WorkerIdle(i)
    \/ \E i \in 1..Len(worker_tasks) : WorkerDequeue(i)
    \/ \E i \in 1..Len(worker_tasks) : WorkerResume(i)

SpecGiveUp == Init /\ [][NextGiveUp]_vars

(***************************************************************************)
(* SpecEvict: an orchestrator whose loader is full after max_cache_size    *)
(* loads (the capacity 100 of the orchestrator's loader scaled down, as    *)
(* LazyAlgorithmLoader(max_cache_size) allows); tasks with fresh ids run   *)
(* on the workers while load_algorithm is also called directly.            *)
(***************************************************************************)
InitEvict ==
    /\ now = 0
    /\ max_cache_size \in 1..MaxCacheBound
    /\ algorithm_cache = [id \in AlgIds |-> NoInstance]
    /\ algorithm_metadata = ConfiguredMetadata(OrchRegistrations)
    /\ algorithm_registry = ConfiguredRegistry(OrchRegistrations)
    /\ n_created = 0
    /\ last_load = [id |-> None, outcome |-> None, result |-> NoInstance, size_before |-> 0,
                    evicted |-> None, retry |-> FALSE]
    /\ OrchInit(1)

NextEvict ==
    \/ /\ task_counter < MaxTasks
       /\ task_counter < Len(TaskIdSeq)
       /\ \E alg \in {"double", "boom"} :
             Submit(TaskIdSeq[task_counter + 1], alg, CallPayload(task_counter),
                    MEDIUM, None)
    \/ \E k \in 1..Len(calls) : CallerReturn(k)
    \/ Start
    \/ \E i \in 1..Len(worker_tasks) : WorkerIdle(i)
    \/ \E i \in 1..Len(worker_tasks) : WorkerDequeue(i)
    \/ \E i \in 1..Len(worker_tasks) : WorkerResume(i)
    \/ \E id \in {"double", "boom"} : Load(id)

SpecEvict == InitEvict /\ [][NextEvict]_vars

\* C1: after any sequence of register and load operations the number of cached
\* algorithm instances never exceeds max_cache_size.
C1_CacheWithinCapacity == Cardinality(CachedIds) <= max_cache_size

\* A load that found the cache full has evicted and cached its instance.
C1_Witness ==
    /\ last_load.outcome = "loaded"
    /\ last_load.size_before = max_cache_size
    /\ Cardinality(CachedIds) = max_cache_size
    /\ algorithm_cache[last_load.id] # NoInstance

(***************************************************************************)
(* Claims about the orchestrator                                           *)
(***************************************************************************)
Priorities == [k \in 1..Len(calls) |-> calls[k].priority]

\* C2: when a worker dequeues, it gets the queued task with the lowest priority
\* value among all tasks in the queue at that moment, and among queued tasks of
\* equal priority the one submitted earliest.
C2_DequeueLowestPriorityThenFifo ==
    [][Len(pickup') > Len(pickup) =>
          \E e \in task_queue :
             /\ e.counter = pickup'[Len(pickup')]
             /\ \A o \in task_queue \ {e} :
                   \/ e.priority < o.priority
                   \/ e.priority = o.priority /\ e.counter < o.counter]_vars

\* Three tasks LOW, CRITICAL, CRITICAL were queued together; the workers took the
\* two CRITICAL ones in submission order, then the LOW one.
C2_Witness ==
    /\ Priorities = <<LOW, CRITICAL, CRITICAL>>
    /\ \A k \in 1..Len(calls) : ~calls[k].after_pick
    /\ pickup = <<1, 2, 0>>

\* C3 as stated: with a single worker and no other tasks, three tasks submitted
\* LOW, CRITICAL, MEDIUM, all before any of them completes, are picked up in the
\* order CRITICAL, MEDIUM, LOW.
C3_Original ==
    (/\ max_concurrent_tasks = 1
     /\ Priorities = <<LOW, CRITICAL, MEDIUM>>
     /\ \A k \in 1..Len(calls) : ~calls[k].after_finish
     /\ Len(pickup) = 3)
    => pickup = <<1, 2, 0>>

\* C3 as amended: with a single worker and no other tasks, three tasks submitted
\* LOW, CRITICAL, MEDIUM, all before the worker dequeues any of them, are picked
\* up in the order CRITICAL, MEDIUM, LOW.
C3_PickupOrderWhenQueuedTogether ==
    (/\ max_concurrent_tasks = 1
     /\ Priorities = <<LOW, CRITICAL, MEDIUM>>
     /\ \A k \in 1..Len(calls) : ~calls[k].after_pick
     /\ Len(pickup) = 3)
    => pickup = <<1, 2, 0>>

C3_Witness ==
    /\ max_concurrent_tasks = 1
    /\ running
    /\ Priorities = <<LOW, CRITICAL, MEDIUM>>
    /\ \A k \in 1..Len(calls) : ~calls[k].after_pick
    /\ pickup = <<1, 2, 0>>

\* The task of call k leaves its worker in this step (its _process_task ends).
Leaves(k) == calls[k].phase \in {"queued", "running"} /\ calls'[k].phase \in {"done", "aborted"}
\* The task of call k is taken in this step and suspends inside the algorithm.
Begins(k) == calls[k].phase = "queued" /\ calls'[k].phase = "running"

ActiveOf(vs, vid) == VertexOf(vs, vid).active_tasks

\* C4: a vertex's active-task count is never negative, and each task a worker
\* processes against the vertex decrements it exactly once (down to 0 at most),
\* whether the task succeeds, fails to load its algorithm, or the algorithm raises:
\* the step in which a task leaves its worker takes one off the count the task
\* holds, taking a task adds one, and no other step lowers a count except
\* create_vertex, which replaces the vertex by a fresh one.
C4_ActiveTasksReleasedOnce ==
    /\ [](\A j \in 1..Len(vertices) : vertices[j].active_tasks >= 0)
    /\ [][/\ \A k \in 1..Len(calls) :
               LET vid == calls[k].vertex_id
               IN /\ (Leaves(k) /\ HasVertex(vertices, vid)) =>
                        ActiveOf(vertices', vid) =
                           Max(0, ActiveOf(vertices, vid)
                                  + (IF calls[k].phase = "queued" THEN 1 ELSE 0) - 1)
                  /\ (Begins(k) /\ HasVertex(vertices, vid)) =>
                        ActiveOf(vertices', vid) = ActiveOf(vertices, vid) + 1
          /\ (\A k \in 1..Len(calls) : calls'[k].phase = calls[k].phase) =>
                \A j \in 1..Len(vertices) :
                   \/ vertices'[j].active_tasks = vertices[j].active_tasks
                   \/ vertices'[j].active_tasks = 0]_vars

\* A task whose algorithm raised has left its worker while another task is still
\* being processed against the same vertex, which counts exactly that one.
C4_Witness ==
    \E k1, k2 \in 1..Len(calls) :
       /\ calls[k1].algorithm_id = "boom" /\ calls[k1].phase = "done"
       /\ calls[k2].phase = "running"
       /\ HasVertex(vertices, "v1")
       /\ ActiveOf(vertices, "v1") = 1

\* The call's future is not resolved yet.
Pending(k) == calls[k].fut = "pending"

\* C5 as stated: there is at most one pending (submitted and not yet resolved)
\* task per task id, also when callers reuse a task id.
C5_Original ==
    \A k1, k2 \in 1..Len(calls) :
       (k1 # k2 /\ Pending(k1) /\ Pending(k2)) => calls[k1].task_id # calls[k2].task_id

\* C6 as stated: while the orchestrator is running (stop() has not been called),
\* execute_task for a registered algorithm whose execution succeeds hands its
\* caller the value the algorithm produced for that task's payload.
C6_Original ==
    \A k \in 1..Len(calls) :
       (stop_pc = "idle" /\ calls[k].algorithm_id = "double" /\ calls[k].fut = "result")
          => calls[k].result = 2 * calls[k].data

\* C7 as stated: a task whose algorithm id is not registered, whose factory fails
\* or whose algorithm raises is delivered to its caller as an error: once the
\* task has been processed its caller holds an exception, never a value.
C7_Original ==
    \A k \in 1..Len(calls) :
       calls[k].algorithm_id \in {"ghost", "broken", "boom"} =>
          /\ calls[k].fut # "result"
          /\ calls[k].phase = "done" => calls[k].fut = "exception"

\* C8: if the orchestrator has been started with at least one worker and is never
\* stopped, every task submitted with a distinct task id eventually has its
\* caller resolved with a result or an error.
C8_EveryTaskResolved ==
    \A k \in 1..(MaxTasks + 1) :
       (running /\ k <= Len(calls)) ~> (k <= Len(calls) /\ ~Pending(k))

\* Two calls were pending at the same time; one got its value, the other its error.
C8_Witness ==
    /\ Len(calls) >= 2
    /\ ~calls[2].after_finish
    /\ calls[1].fut = "exception"
    /\ calls[2].fut = "result" /\ calls[2].result = 2 * calls[2].data

\* C9 as stated: a task that a worker was processing when stop() was called runs
\* to completion, and its caller's future is resolved.
C9_Original ==
    \A k \in 1..Len(calls) :
       calls[k].at_stop = "running" =>
          /\ calls[k].phase # "aborted"
          /\ calls[k].phase = "done" => ~Pending(k)

\* C10 as stated: after stop() has been called no worker takes a task.
C10_Original == [][stop_pc # "idle" => pickup' = pickup]_vars

\* C11 as stated: a task that is still in the queue when stop() is called is
\* abandoned: no worker ever takes it and its caller's future stays pending.
C11_Original ==
    \A k \in 1..Len(calls) :
       calls[k].at_stop = "queued" => (calls[k].phase = "queued" /\ Pending(k))

\* The coroutines of _worker_tasks of one kind that have not ended.
Live(kind) == {i \in 1..Len(worker_tasks) :
                  worker_tasks[i].kind = kind /\ ~Done(worker_tasks[i])}

\* C12 as stated: after any sequence of start() calls there are exactly
\* min(max_concurrent_tasks, 10) live worker loops and exactly one monitoring
\* loop, so at most min(max_concurrent_tasks, 10) tasks are being processed at once.
C12_Original ==
    running =>
       /\ Cardinality(Live("worker")) = Min(max_concurrent_tasks, WorkerPoolCap)
       /\ Cardinality(Live("monitor")) = 1
       /\ Cardinality({k \in 1..Len(calls) : calls[k].phase = "running"})
             <= Min(max_concurrent_tasks, WorkerPoolCap)

(***************************************************************************)
(* Claims about cascades                                                   *)
(***************************************************************************)
\* The stages of the call's trace that failed to load or raised.
FailedStages == {k \in 1..Len(cascade_run.trace) : cascade_run.trace[k].outcome # "ok"}

\* C13: when stage k of a cascade fails to load or raises, the call returns the
\* output of stage k-1 (the original input when k is the first stage), the stages
\* before k are the chain's first k-1 stages and succeeded, and no stage after k
\* is executed.
C13_CascadeReturnsLastGoodPayload ==
    LET tr == cascade_run.trace
    IN \A k \in FailedStages :
          /\ cascade_run.pc = "returned"
          /\ k = Len(tr)
          /\ k <= Len(cascade_run.stages)
          /\ \A j \in 1..k : tr[j].algorithm_id = cascade_run.stages[j]
          /\ cascade_run.current_data =
                (IF k = 1 THEN cascade_run.input ELSE tr[k - 1].output)

\* The second of three stages raised after the first had doubled the input: the
\* call returned the doubled input and the third stage was not executed.
C13_Witness ==
    /\ cascade_run.pc = "returned"
    /\ cascade_run.stages = <<"double", "boom", "inc">>
    /\ Len(cascade_run.trace) = 2
    /\ cascade_run.trace[2].outcome = "raised"
    /\ cascade_run.input = Number(5)
    /\ cascade_run.current_data = Number(10)

\* C14: when every stage of a defined cascade loads and executes successfully, the
\* stages are executed in the defined order, each on the previous stage's output
\* (the first on the input), and the call returns the last stage's output.
C14_CascadeComposesStages ==
    LET tr == cascade_run.trace
    IN (cascade_run.pc = "returned" /\ FailedStages = {}) =>
          /\ Len(tr) = Len(cascade_run.stages)
          /\ \A j \in 1..Len(tr) :
                /\ tr[j].algorithm_id = cascade_run.stages[j]
                /\ tr[j].input = (IF j = 1 THEN cascade_run.input ELSE tr[j - 1].output)
                /\ tr[j].output = Payload(ExecuteOn(tr[j].instance, tr[j].input))
          /\ cascade_run.current_data =
                (IF Len(tr) = 0 THEN cascade_run.input ELSE tr[Len(tr)].output)

\* inc then double on 5 returned (5 + 1) * 2, not 5 * 2 + 1.
C14_Witness ==
    /\ cascade_run.pc = "returned"
    /\ cascade_run.stages = <<"inc", "double">>
    /\ cascade_run.input = Number(5)
    /\ Len(cascade_run.trace) = 2
    /\ cascade_run.trace[1].instance.factory = "inc"
    /\ cascade_run.trace[2].instance.factory = "double"
    /\ cascade_run.current_data = Number(12)

\* C15: execute_cascade raises if and only if the chain id is undefined: the call
\* raises at once when the chain is not defined, and a call on a defined chain
\* never raises, whatever its stages do.
C15_CascadeRaisesOnlyUndefined ==
    [][/\ cascade_run'.n # cascade_run.n =>
             (cascade_run'.pc = "raised"
                <=> ~cascade_chains[cascade_run'.chain].defined)
       /\ cascade_run'.n = cascade_run.n =>
             (cascade_run'.pc = "raised" => cascade_run.pc = "raised")]_vars

\* A call on a defined chain whose first stage failed to load returned its input.
C15_Witness ==
    /\ cascade_run.pc = "returned"
    /\ Len(cascade_run.trace) = 1
    /\ cascade_run.trace[1].outcome = "load_failed"
    /\ cascade_run.current_data = cascade_run.input

(***************************************************************************)
(* Claims about compound groups                                            *)
(***************************************************************************)
\* The entry the returned map holds under key, a key of the map.
EntryUnder(key) ==
    LET d == compound_run.result.entries
    IN d[CHOOSE i \in 1..Len(d) : d[i].key = key].entry

\* C16: the map execute_compound returns for a defined group has exactly one entry
\* per member id: the member's value if it loaded and executed successfully, null
\* if it failed to load or raised; no member's failure removes or alters the entry
\* of another member.
C16_CompoundEntryPerMember ==
    LET run == compound_run
        d == run.result.entries
    IN run.pc = "returned" =>
          /\ {d[i].key : i \in 1..Len(d)} = {run.members[i] : i \in 1..Len(run.members)}
          /\ \A i, j \in 1..Len(d) : d[i].key = d[j].key => i = j
          /\ \A i \in 1..Len(run.members) :
                \/ EntryUnder(run.members[i]) =
                      (IF run.results[i].kind = "raise"
                       THEN [kind |-> "null", value |-> 0]
                       ELSE [kind |-> run.results[i].kind, value |-> run.results[i].value])
                \/ \E j \in (i + 1)..Len(run.members) : run.members[j] = run.members[i]

\* double, boom and inc on 5: 10 and 6 stand beside the null of the member that
\* raised.
C16_Witness ==
    /\ compound_run.pc = "returned"
    /\ compound_run.members = <<"double", "boom", "inc">>
    /\ compound_run.data = Number(5)
    /\ compound_run.result.entries =
          <<[key |-> "double", entry |-> Number(10)],
            [key |-> "boom", entry |-> [kind |-> "null", value |-> 0]],
            [key |-> "inc", entry |-> Number(6)]>>

\* The positions of the returned map whose entry is a number: an int or a float,
\* and with them Python's bools, which are ints (True is 1).
NumericEntries ==
    {i \in 1..Len(compound_run.result.entries) :
        compound_run.result.entries[i].entry.kind \in {"value", "bool"}}

RECURSIVE SumOver(_)
SumOver(S) ==
    IF S = {} THEN 0
    ELSE LET i == CHOOSE i \in S : TRUE
         IN compound_run.result.entries[i].entry.value + SumOver(S \ {i})

\* C17: the aggregate (compound_numerical) of a returned map is the equal-weighted
\* mean of exactly the numeric entries, total / weight with total their sum and
\* weight their number; null and non-numeric entries do not contribute, and the
\* aggregate is absent when no entry is numeric.
C17_AggregateIsMeanOfNumeric ==
    compound_run.pc = "returned" =>
       /\ compound_run.result.has_aggregate <=> NumericEntries # {}
       /\ compound_run.result.has_aggregate =>
             /\ compound_run.result.weight = Cardinality(NumericEntries)
             /\ compound_run.result.total = SumOver(NumericEntries)

\* double, boom, describe and inc on 5: the aggregate is (10 + 6) / 2.
C17_Witness ==
    /\ compound_run.pc = "returned"
    /\ compound_run.members = <<"double", "boom", "describe", "inc">>
    /\ compound_run.data = Number(5)
    /\ compound_run.result.has_aggregate
    /\ compound_run.result.total = 16
    /\ compound_run.result.weight = 2

\* C18: execute_compound raises only if the group id is undefined: the call raises
\* at once when the group is not defined, a call on a defined group never raises,
\* and once every member is done it returns a map, however many members failed.
C18_CompoundRaisesOnlyUndefined ==
    [][/\ compound_run'.n # compound_run.n =>
             (compound_run'.pc = "raised"
                <=> ~compound_groups[compound_run'.group].defined)
       /\ compound_run'.n = compound_run.n =>
             /\ compound_run'.pc = "raised" => compound_run.pc = "raised"
             /\ (compound_run.pc = "gathering" /\ compound_run'.pc # "gathering") =>
                   compound_run'.pc = "returned"]_vars

\* Both members of a group failed and the call returned a map of two nulls.
C18_Witness ==
    /\ compound_run.pc = "returned"
    /\ compound_run.members = <<"broken", "boom">>
    /\ \A i \in 1..2 : compound_run.results[i].kind = "raise"
    /\ Len(compound_run.result.entries) = 2
    /\ ~compound_run.result.has_aggregate

(***************************************************************************)
(* Claims about the loader's cache                                         *)
(***************************************************************************)
\* C19 as stated: for every registered id, two consecutive loads return the same
\* instance, call the factory once at most, and raise the id's use count by two.
C19_Original ==
    (load_pair.id # None /\ load_pair.registered) =>
       /\ load_pair.first # NoInstance
       /\ load_pair.second = load_pair.first
       /\ load_pair.created <= 1
       /\ load_pair.usage_after = load_pair.usage_before + 2

\* C19 as amended: for every registered id whose factory does not raise, two
\* consecutive loads return the same instance, call the factory once at most
\* (not at all when the id was cached), and raise the id's use count by two.
C19_LoadTwiceSameInstance ==
    (load_pair.id # None /\ load_pair.factory_ok) =>
       /\ load_pair.first # NoInstance
       /\ load_pair.second = load_pair.first
       /\ load_pair.created <= 1
       /\ load_pair.usage_after = load_pair.usage_before + 2

\* Two loads of an id that was not cached, the second finding the cache full: the factory ran
\* once, both loads returned its instance, the count went from 0 to 2.
C19_Witness ==
    /\ load_pair.id = "double"
    /\ load_pair.factory_ok
    /\ load_pair.created = 1
    /\ load_pair.first = load_pair.second
    /\ load_pair.first = algorithm_cache["double"]
    /\ load_pair.usage_before = 0
    /\ load_pair.usage_after = 2
    /\ last_load.size_before = max_cache_size

\* C20: a load of an uncached registered id that finds the cache full takes exactly
\* one entry out of the cache, an entry that was cached, and no cached entry had an
\* older last-used timestamp than it.
C20_EvictsOldestCached ==
    [][(/\ algorithm_cache' # algorithm_cache \/ last_load' # last_load
        /\ last_load'.outcome \in {"loaded", "factory_raised"}
        /\ Cardinality(CachedIds) >= max_cache_size)
       => /\ last_load'.evicted \in CachedIds
          /\ {a \in CachedIds : algorithm_cache'[a] = NoInstance} = {last_load'.evicted}
          /\ \A w \in CachedIds :
                LastUsedOf(algorithm_metadata, last_load'.evicted)
                   <= LastUsedOf(algorithm_metadata, w)]_vars

\* A load that found two entries cached in a cache of two and evicted the one used
\* strictly earlier than the one it kept.
C20_Witness ==
    /\ last_load.outcome = "loaded"
    /\ max_cache_size = 2
    /\ last_load.size_before = 2
    /\ last_load.evicted # None
    /\ algorithm_cache[last_load.evicted] = NoInstance
    /\ \E w \in CachedIds \ {last_load.id} :
          LastUsedOf(algorithm_metadata, w) > LastUsedOf(algorithm_metadata, last_load.evicted)

(***************************************************************************)
(* Claims about instances, registration and vertices                       *)
(***************************************************************************)
\* The instances of the id that are alive: the cached one and those a worker is
\* executing a task of that id on.
LiveInstances(id) ==
    ({algorithm_cache[id]} \ {NoInstance})
      \cup {worker_tasks[i].algorithm : i \in
               {j \in 1..Len(worker_tasks) :
                   /\ worker_tasks[j].pc = "exec"
                   /\ worker_tasks[j].task.task_data.algorithm_id = id}}

\* C21 as stated: an algorithm id never has two distinct instances in use or
\* cached at the same time.
C21_Original == \A id \in AlgIds : Cardinality(LiveInstances(id)) <= 1

\* C22 as stated: register never invokes a factory and never changes the cache,
\* and a load returns an instance produced by the factory most recently
\* registered for the id.
C22_Original ==
    [][/\ algorithm_registry' # algorithm_registry =>
             /\ algorithm_cache' = algorithm_cache
             /\ n_created' = n_created
       /\ (last_load' # last_load /\ last_load'.result # NoInstance) =>
             last_load'.result.factory = algorithm_registry[last_load'.id]]_vars

\* C23: a load whose factory raises reports failure (returns None) and leaves the
\* id out of the cache; a load of an id that is not cached (so also the next load
\* after such a failure) calls the factory bound to the id and, if that factory
\* does not raise, returns and caches the instance it built.
C23_FailedLoadIsRetried ==
    [][(algorithm_cache' # algorithm_cache \/ last_load' # last_load) =>
          LET id == last_load'.id
          IN /\ last_load'.outcome = "factory_raised" =>
                   /\ last_load'.result = NoInstance
                   /\ algorithm_cache'[id] = NoInstance
                   /\ n_created' = n_created
             /\ (/\ algorithm_cache[id] = NoInstance
                 /\ algorithm_registry[id] # None
                 /\ ~FactoryRaises(algorithm_registry[id])) =>
                   /\ last_load'.outcome = "loaded"
                   /\ last_load'.result # NoInstance
                   /\ last_load'.result.serial = n_created + 1
                   /\ algorithm_cache'[id] = last_load'.result
                   /\ n_created' = n_created + 1]_vars

\* The load of "broken" failed because its factory raised; the id was registered
\* again with a factory that works, and the next load built and cached an instance.
C23_Witness ==
    /\ last_load.id = "broken"
    /\ last_load.retry
    /\ last_load.outcome = "loaded"
    /\ algorithm_cache["broken"] = last_load.result
    /\ last_load.result.factory = "double"

\* The step is a create_vertex / connect_vertices call.
TopologyStep(op) ==
    /\ topology_call'.op = op
    /\ topology_call' # topology_call \/ vertices' # vertices

Connections(vs, vid) ==
    {VertexOf(vs, vid).connections[n] : n \in 1..Len(VertexOf(vs, vid).connections)}

\* C24 as stated: create_vertex(id, capacity) registers a vertex with that
\* capacity and no active tasks when the id is new, and leaves the existing
\* vertex unchanged when the id exists already.
C24_Original ==
    [][TopologyStep("create_vertex") =>
          LET vid == topology_call'.a
          IN IF HasVertex(vertices, vid)
             THEN vertices' = vertices
             ELSE /\ HasVertex(vertices', vid)
                  /\ VertexOf(vertices', vid).max_capacity = topology_call'.max_capacity
                  /\ VertexOf(vertices', vid).active_tasks = 0]_vars

\* C25: connect_vertices(a, b) adds b to a's connections and a to b's connections
\* when both vertices exist (and takes nothing away), and changes no vertex when
\* either id is unknown.
C25_ConnectAddsBothWays ==
    [][TopologyStep("connect_vertices") =>
          LET a == topology_call'.a
              b == topology_call'.b
          IN IF HasVertex(vertices, a) /\ HasVertex(vertices, b)
             THEN /\ b \in Connections(vertices', a)
                  /\ a \in Connections(vertices', b)
                  /\ Len(vertices') = Len(vertices)
                  /\ \A i \in 1..Len(vertices) :
                        /\ vertices'[i].vertex_id = vertices[i].vertex_id
                        /\ Connections(vertices, vertices[i].vertex_id)
                              \subseteq Connections(vertices', vertices[i].vertex_id)
                        /\ Connections(vertices', vertices[i].vertex_id)
                              \subseteq Connections(vertices, vertices[i].vertex_id) \cup {a, b}
             ELSE vertices' = vertices]_vars

\* connect_vertices("v1", "v2") on two existing vertices has put each into the
\* other's connections.
C25_Witness ==
    /\ topology_call.op = "connect_vertices"
    /\ topology_call.a = "v1"
    /\ topology_call.b = "v2"
    /\ HasVertex(vertices, "v1")
    /\ HasVertex(vertices, "v2")
    /\ "v2" \in Connections(vertices, "v1")
    /\ "v1" \in Connections(vertices, "v2")

\* C26 as stated: after any sequence of create_vertex and connect_vertices calls,
\* b is in a's connections if and only if a is in b's connections.
C26_Original ==
    \A i, j \in 1..Len(vertices) :
        vertices[j].vertex_id \in Connections(vertices, vertices[i].vertex_id)
           <=> vertices[i].vertex_id \in Connections(vertices, vertices[j].vertex_id)

\* load_factor + active_tasks / max_capacity of a is at most that of b, both
\* sides multiplied by 2 * a.max_capacity * b.max_capacity.
ScoreAtMost(a, b) ==
    (a.load_factor_x2 * a.max_capacity + 2 * a.active_tasks) * b.max_capacity
        <= (b.load_factor_x2 * b.max_capacity + 2 * b.active_tasks) * a.max_capacity

\* C27: a task submitted without a vertex id is targeted at a vertex whose
\* load_factor + active_tasks / max_capacity is minimal over the existing
\* vertices, the first of them in creation order on a tie, and the vertex table
\* is left alone; with no vertex, exactly the default vertex is created and
\* targeted.
C27_SubmitTargetsLeastLoaded ==
    [][Len(calls') = Len(calls) + 1 =>
          LET t == calls'[Len(calls')].vertex_id
          IN /\ \E e \in task_queue' \ task_queue : e.task_data.vertex_id = t
             /\ IF Len(vertices) = 0
                THEN /\ t = "default_vertex"
                     /\ Len(vertices') = 1
                     /\ vertices'[1].vertex_id = "default_vertex"
                     /\ vertices'[1].active_tasks = 0
                ELSE /\ vertices' = vertices
                     /\ \E i \in 1..Len(vertices) :
                           /\ vertices[i].vertex_id = t
                           /\ \A j \in 1..Len(vertices) :
                                 ScoreAtMost(vertices[i], vertices[j])
                           /\ \A j \in 1..(i - 1) :
                                 ~ScoreAtMost(vertices[j], vertices[i])]_vars

\* The first task went to "v1", the first vertex, and is running there; the
\* second task was then targeted at "v2".
C27_Witness ==
    /\ Len(calls) = 2
    /\ Len(vertices) = 2
    /\ vertices[1].vertex_id = "v1"
    /\ vertices[1].active_tasks = 1
    /\ calls[1].vertex_id = "v1"
    /\ calls[1].phase = "running"
    /\ calls[2].vertex_id = "v2"
    /\ ~calls[2].after_finish

(***************************************************************************)
(* Claims about the worker loop, the engine pass-through and the monitor   *)
(***************************************************************************)
\* The failures the tracker has recorded.
Failures(hist) ==
    {r \in AlgIds \X (1..(2 * MaxTasks)) : r[2] <= Len(hist[r[1]]) /\ ~hist[r[1]][r[2]]}

\* The task of the k-th execute_task call is in the queue.
StillQueued(k) == IF k <= Len(calls) THEN calls[k].phase = "queued" ELSE FALSE

\* C28: a task failure (the load fails, the algorithm raises, or delivering the
\* result raises) never ends the worker loop: the worker that processed the
\* failing task is back at its queue get, and with a single worker every task
\* that is queued once a failure has happened is still taken from the queue.
C28_WorkerSurvivesFailure ==
    /\ [][Failures(execution_history') # Failures(execution_history) =>
             \E i \in 1..Len(worker_tasks) :
                /\ worker_tasks[i].kind = "worker"
                /\ worker_tasks[i].pc \in {"get", "exec"}
                /\ worker_tasks'[i].pc = "get"
                /\ worker_tasks'[i].task = NoEntry
                /\ \A j \in 1..Len(worker_tasks) \ {i} : worker_tasks'[j] = worker_tasks[j]]_vars
    /\ \A k \in 1..MaxTasks :
          (/\ max_concurrent_tasks = 1
           /\ running
           /\ Failures(execution_history) # {}
           /\ StillQueued(k))
             ~> ~StillQueued(k)

\* The single worker processed a task whose algorithm raised and then took the
\* next task and finished it.
C28_Witness ==
    /\ max_concurrent_tasks = 1
    /\ Len(calls) = 2
    /\ pickup = <<0, 1>>
    /\ calls[1].algorithm_id = "boom"
    /\ calls[1].phase = "done"
    /\ execution_history["boom"] = <<FALSE>>
    /\ calls[2].algorithm_id = "double"
    /\ calls[2].phase = "done"
    /\ execution_history["double"] = <<TRUE>>

\* C29: execute_cascade and execute_compound on the orchestrator leave the
\* priority queue, the pending-result map, the vertices (so every active-task
\* count) and the tracker unchanged in every step they take, and a call that has
\* started completes whether or not a worker runs.
C29_EngineCallsBypassScheduler ==
    /\ [][(cascade_run' # cascade_run \/ compound_run' # compound_run) =>
             /\ task_queue' = task_queue
             /\ task_counter' = task_counter
             /\ active_tasks' = active_tasks
             /\ calls' = calls
             /\ vertices' = vertices
             /\ execution_history' = execution_history]_vars
    /\ (cascade_run.pc = "exec") ~> (cascade_run.pc \in {"returned", "raised"})
    /\ (compound_run.pc = "gathering") ~> (compound_run.pc \in {"returned", "raised"})

\* Both calls have returned on an orchestrator that was never started, with a
\* task waiting in the queue and nothing recorded by the tracker.
C29_Witness ==
    /\ ~running
    /\ worker_tasks = <<>>
    /\ task_queue # {}
    /\ cascade_run.pc = "returned"
    /\ cascade_run.current_data = Number(11)
    /\ compound_run.pc = "returned"
    /\ \A id \in AlgIds : execution_history[id] = <<>>
\* C30 (as stated): every vertex's load factor stays within [0,1] in every
\* reachable state, resource-monitoring updates included.  load_factor_x2 is
\* twice the load factor, so the range is 0..2.
C30_Original ==
    \A j \in 1..Len(vertices) :
        /\ vertices[j].load_factor_x2 >= 0
        /\ vertices[j].load_factor_x2 <= 2


(***************************************************************************)
(* Claims about the tracker's window                                       *)
(***************************************************************************)
Successes(h) == Cardinality({i \in 1..Len(h) : h[i]})

\* C31: for every algorithm id the tracker keeps at most the 1000 most recent
\* records, the oldest dropped first, and after every append total_executions is
\* the number of records kept and success_rate the kept successes divided by the
\* kept records.  Every step of SpecTracker is one record_execution call: it adds
\* one record to one id, behind the records that were there, of which only the
\* oldest may go.
C31_TrackerKeepsLastThousand ==
    /\ [](\A id \in AlgIds :
            LET h == execution_history[id]
            IN /\ Len(h) <= 1000
               /\ Len(h) > 0 =>
                     /\ performance_stats[id].total_executions = Len(h)
                     /\ performance_stats[id].success_rate_num = Successes(h)
                     /\ performance_stats[id].success_rate_den = Len(h))
    /\ [][\E id \in AlgIds :
            LET h == execution_history[id]
                g == execution_history'[id]
            IN /\ Len(g) = Min(Len(h) + 1, 1000)
               /\ \A i \in 1..(Len(g) - 1) : g[i] = h[i + Len(h) + 1 - Len(g)]
               /\ \A o \in AlgIds \ {id} : execution_history'[o] = execution_history[o]]_vars

\* 1001 records of "double": the first was dropped, the second, a failure, is now
\* the oldest of the 1000 kept, and the statistics count 999 successes in 1000.
C31_Witness ==
    /\ now = 1001
    /\ Len(execution_history["double"]) = 1000
    /\ ~execution_history["double"][1]
    /\ performance_stats["double"].total_executions = 1000
    /\ performance_stats["double"].success_rate_num = 999
    /\ performance_stats["double"].success_rate_den = 1000


\* C32: after any sequence of execute_with_cache calls on an algorithm, with any
\* number of distinct inputs, the algorithm's result cache holds at most 1000
\* entries.
C32_ResultCacheAtMostThousand == Len(result_cache) <= 1000

\* A call found 1000 entries cached, added its own result and the cache was cut
\* down to 901.
C32_Witness ==
    /\ cache_call.outcome = "cached"
    /\ cache_call.size_before = 1000
    /\ Len(result_cache) = 901
    /\ result_cache[901] = cache_call.key


(***************************************************************************)
(* Claims about a task's way through the worker                            *)
(***************************************************************************)
\* How far the task of a call has come: queued, taken by a worker and running, or
\* through with _process_task ("done") or cut off in it by a cancellation.
PhaseRank(ph) ==
    CASE ph = "queued" -> 0
      [] ph = "running" -> 1
      [] OTHER -> 2

\* The times the task with counter c was taken from the queue.
TimesTaken(pk, c) == Cardinality({i \in 1..Len(pk) : pk[i] = c})

\* The task of the call record c went through the try branch up to the success
\* record (Completed), through the except branch (Failed).
Completed(c) == \E i \in 1..Len(c.recorded) : c.recorded[i]
Failed(c) == \E i \in 1..Len(c.recorded) : ~c.recorded[i]

\* The part of C33 about dequeuing and the order of the phases: every task is taken
\* by at most one worker, once, a phase is never followed by an earlier one and a
\* task that is through stays as it is.
TaskMovesForward ==
    [][\A k \in 1..Len(calls) :
          /\ TimesTaken(pickup', k - 1) <= 1
          /\ TimesTaken(pickup', k - 1) = (IF calls'[k].phase = "queued" THEN 0 ELSE 1)
          /\ PhaseRank(calls'[k].phase) >= PhaseRank(calls[k].phase)
          /\ PhaseRank(calls[k].phase) = 2 =>
                /\ calls'[k].phase = calls[k].phase
                /\ calls'[k].recorded = calls[k].recorded]_vars

\* C33 (as stated): every submitted task is dequeued by at most one worker and its
\* algorithm is executed at most once; its lifecycle only moves forward through
\* Queued, Dispatched, Running and then exactly one of Completed or Failed.
C33_Original ==
    [][\A k \in 1..Len(calls') :
          /\ TimesTaken(pickup', k - 1) <= 1
          /\ k <= Len(calls) => PhaseRank(calls'[k].phase) >= PhaseRank(calls[k].phase)
          /\ calls'[k].phase = "done" => Completed(calls'[k]) # Failed(calls'[k])]_vars


\* The calls whose task is through _process_task and named the algorithm id.
ProcessedFor(id) ==
    {k \in 1..Len(calls) : calls[k].phase = "done" /\ calls[k].algorithm_id = id}

\* C34 (as stated): each task processed by a worker appends exactly one record to
\* the tracker for its algorithm id, with success = true if and only if the
\* algorithm loaded and executed without error ("double" is the one id of the
\* callers whose algorithm loads and returns), also for callers that stopped
\* waiting.
C34_Original ==
    /\ \A k \in 1..Len(calls) :
          calls[k].phase = "done" =>
             calls[k].recorded = <<calls[k].algorithm_id = "double">>
    /\ \A id \in AlgIds :
          Len(execution_history[id]) = Cardinality(ProcessedFor(id))


(***************************************************************************)
(* Claims about eviction ties and failed loads                             *)
(***************************************************************************)
\* C35 (as stated): when eviction is needed and two or more cached entries share
\* the oldest last-used timestamp, the one with the lowest use count is evicted:
\* no cached entry with the evicted entry's timestamp had a lower use count.
C35_Original ==
    [][\A e \in CachedIds :
          algorithm_cache'[e] = NoInstance =>
             \A c \in CachedIds :
                LastUsedOf(algorithm_metadata, c) = LastUsedOf(algorithm_metadata, e)
                   => UsageOf(algorithm_metadata, e) <= UsageOf(algorithm_metadata, c)]_vars


\* C36 (as stated): a load call that fails (id not registered, or factory raises)
\* leaves the set of cached instances exactly as it was before the call: no entry
\* is added and no entry is evicted.
C36_Original ==
    [][(/\ last_load'.outcome \in {"not_registered", "factory_raised"}
        /\ last_load' # last_load \/ algorithm_cache' # algorithm_cache)
       => algorithm_cache' = algorithm_cache]_vars

\* The part of C36 about ids that are not registered.
UnregisteredLoadKeepsCache ==
    [][(last_load'.outcome = "not_registered") => algorithm_cache' = algorithm_cache]_vars


(***************************************************************************)
(* Claims about the vertices' active-task counts                           *)
(***************************************************************************)
\* The calls whose task names the vertex and is inside _process_task, suspended in
\* its algorithm.
InProgressOn(vid) ==
    {k \in 1..Len(calls) : calls[k].phase = "running" /\ calls[k].vertex_id = vid}

\* C37 (as stated): at every moment and for every vertex, the active-task count
\* equals the number of tasks targeting that vertex that a worker has begun
\* processing and not yet finished.
C37_Original ==
    \A j \in 1..Len(vertices) :
       vertices[j].active_tasks = Cardinality(InProgressOn(vertices[j].vertex_id))


\* C38 (as stated): a vertex's active-task count never exceeds its maximum
\* concurrent-task capacity.
C38_Original ==
    \A j \in 1..Len(vertices) : vertices[j].active_tasks <= vertices[j].max_capacity


(***************************************************************************)
(* Claims about delivery and about the slots at stop                       *)
(***************************************************************************)
\* C39 (as stated): no result is lost between submission and delivery: every task
\* whose processing finishes while its caller is still waiting resolves that
\* caller's future, with a result or with an exception.
C39_Original ==
    [][\A k \in 1..Len(calls) :
          (/\ calls[k].phase # "done"
           /\ calls'[k].phase = "done"
           /\ Pending(k))
          => calls'[k].fut \in {"result", "exception"}]_vars


\* C40: when stop() has returned, every vertex's active-task count is 0, also for
\* the tasks that were being processed at the moment stop() was called.
C40_NoSlotHeldAfterStop ==
    stop_pc = "returned" => \A j \in 1..Len(vertices) : vertices[j].active_tasks = 0

\* stop() has returned after cancelling a worker that was inside a task on a
\* vertex of the table.
C40_Witness ==
    /\ stop_pc = "returned"
    /\ \E k \in 1..Len(calls) :
          /\ calls[k].at_stop = "running"
          /\ calls[k].phase = "aborted"
          /\ HasVertex(vertices, calls[k].vertex_id)
          /\ ActiveOf(vertices, calls[k].vertex_id) = 0

====
